---- MODULE Spec2Model ----
EXTENDS Integers, Sequences, FiniteSets, TLC

(***************************************************************************)
(* Model of egg-mode's request engine (src/common/response.rs):            *)
(* RawFuture::poll, TwitterFuture::poll, make_response, rate_headers.      *)
(*                                                                         *)
(* Option<T> is a sequence of length at most one: <<>> is None and <<x>>   *)
(* is Some(x).  A poll's return value is a record [kind, val].             *)
(***************************************************************************)

\* Bounds of the model.
MaxBody == 4        \* units the body stream delivers at most
MaxRepoll == 2      \* resumptions issued after the first terminal outcome

None == <<>>
Some(x) == <<x>>
IsNone(o) == Len(o) = 0
IsSome(o) == Len(o) = 1
Unwrap(o) == o[1]

(***************************************************************************)
(* Body bytes.  The body is a sequence of units.  Four units stand for     *)
(* ASCII fragments of a JSON document, two are the bytes of the two-byte   *)
(* UTF-8 encoding of U+00E9 (0xC3 0xA9):                                   *)
(*   "OPEN"  = {"errors":[          "CLOSE" = ]}                           *)
(*   "E88"   = {"code":88,"message":"x"}   (with its separating comma)     *)
(*   "E34"   = {"code":34,"message":"y"}   (with its separating comma)     *)
(*   "C3"    = lead byte 0xC3       "A9"    = continuation byte 0xA9       *)
(***************************************************************************)
Ascii == {"OPEN", "E88", "E34", "CLOSE"}
Lead2 == {"C3"}
Cont == {"A9"}
Units == Ascii \cup Lead2 \cup Cont

\* The chunks a body stream can deliver in one poll.
Chunks == {<<u>> : u \in Units} \cup {<<u, v>> : u \in Units, v \in Units}

\* std::str::from_utf8 validation, restricted to the units above: an ASCII
\* byte stands alone, a two-byte lead needs a continuation byte after it, a
\* continuation byte without a lead is invalid.
RECURSIVE ValidUtf8From(_, _)
ValidUtf8From(bytes, i) ==
  IF i > Len(bytes) THEN TRUE
  ELSE IF bytes[i] \in Ascii THEN ValidUtf8From(bytes, i + 1)
  ELSE IF bytes[i] \in Lead2
       THEN i + 1 <= Len(bytes) /\ bytes[i + 1] \in Cont /\ ValidUtf8From(bytes, i + 2)
  ELSE FALSE

\* String::from_utf8(bytes): Some(text) or None (Err).
FromUtf8(bytes) == IF ValidUtf8From(bytes, 1) THEN Some(bytes) ELSE None

\* One entry of the structured API error payload.
ErrorEntry(u) ==
  IF u = "E88" THEN [code |-> 88, message |-> "x"] ELSE [code |-> 34, message |-> "y"]

\* json::decode::<TwitterErrors>(&text): Some(errors) when the text is an
\* object whose "errors" field is an array of (code, message) objects.
DecodeTwitterErrors(text) ==
  IF /\ Len(text) >= 2
     /\ text[1] = "OPEN"
     /\ text[Len(text)] = "CLOSE"
     /\ \A i \in 2..(Len(text) - 1) : text[i] \in {"E88", "E34"}
  THEN Some([i \in 1..(Len(text) - 2) |-> ErrorEntry(text[i + 1])])
  ELSE None

(***************************************************************************)
(* Response headers: a function from the names present to raw values; a    *)
(* raw value is a sequence of characters (a character outside ASCII is     *)
(* written by its code point, see WhiteSpace).                             *)
(***************************************************************************)
XRateLimitLimit == "X-Rate-Limit-Limit"
XRateLimitRemaining == "X-Rate-Limit-Remaining"
XRateLimitReset == "X-Rate-Limit-Reset"

Digits == {"0", "1", "2", "3", "4", "5", "6", "7", "8", "9"}
DigitVal(c) ==
  CASE c = "0" -> 0 [] c = "1" -> 1 [] c = "2" -> 2 [] c = "3" -> 3 [] c = "4" -> 4
    [] c = "5" -> 5 [] c = "6" -> 6 [] c = "7" -> 7 [] c = "8" -> 8 [] c = "9" -> 9

I32Max == 2147483647

\* checked_mul(10) and checked_add / checked_sub of a digit stay in i32.
Fits(acc, d, sign) ==
  IF sign > 0
  THEN acc < I32Max \div 10 \/ (acc = I32Max \div 10 /\ d <= I32Max % 10)
  ELSE acc > 0 - (I32Max \div 10) \/ (acc = 0 - (I32Max \div 10) /\ d <= (I32Max % 10) + 1)

\* The digits of raw from position i on, accumulated with the sign as
\* i32::from_str does: Some(value), or None once a character is no digit or
\* the value leaves the i32 range.
RECURSIVE ParseDigits(_, _, _, _)
ParseDigits(raw, i, acc, sign) ==
  IF i > Len(raw) THEN Some(acc)
  ELSE IF raw[i] \notin Digits THEN None
  ELSE IF Fits(acc, DigitVal(raw[i]), sign)
       THEN ParseDigits(raw, i + 1, acc * 10 + sign * DigitVal(raw[i]), sign)
  ELSE None

\* char::is_whitespace, the characters with the White_Space property:
\* U+0009 to U+000D, the space, U+0085, U+00A0, U+1680, U+2000 to U+200A,
\* U+2028, U+2029, U+202F, U+205F and U+3000.  An ASCII character of a raw
\* value is the one-character string of it; a character outside ASCII is
\* the string "U+" followed by the four hexadecimal digits of its code
\* point, so "U+2003" is the em space and "U+00E9" is e with acute.
WhiteSpace ==
  {"\t", "\n", "", "\f", "\r", " ",
   "U+0085", "U+00A0", "U+1680",
   "U+2000", "U+2001", "U+2002", "U+2003", "U+2004", "U+2005", "U+2006", "U+2007",
   "U+2008", "U+2009", "U+200A",
   "U+2028", "U+2029", "U+202F", "U+205F", "U+3000"}

\* str::trim on a raw value: the white space at both ends removed.
RECURSIVE Trim(_)
Trim(raw) ==
  IF Len(raw) = 0 THEN raw
  ELSE IF raw[1] \in WhiteSpace THEN Trim(Tail(raw))
  ELSE IF raw[Len(raw)] \in WhiteSpace THEN Trim(SubSeq(raw, 1, Len(raw) - 1))
  ELSE raw

\* <i32 as FromStr>::from_str: an optional sign, then at least one digit,
\* within the i32 range.  Some(n) or None.
I32FromStr(t) ==
  IF Len(t) = 0 THEN None
  ELSE IF t[1] = "-" THEN (IF Len(t) = 1 THEN None ELSE ParseDigits(t, 2, 0, -1))
  ELSE IF t[1] = "+" THEN (IF Len(t) = 1 THEN None ELSE ParseDigits(t, 2, 0, 1))
  ELSE ParseDigits(t, 1, 0, 1)

\* The typed header's parse of its raw value (one line, trimmed, parsed as
\* i32): Some(n) or None.
ParseI32(raw) == I32FromStr(Trim(raw))

\* Headers::has::<H>(): the header's name is in the collection.
Has(headers, name) == name \in DOMAIN headers

\* Headers::get::<H>(): the typed header, when present and well-formed.
Get(headers, name) == IF Has(headers, name) THEN ParseI32(headers[name]) ELSE None

\* Option::map_or(default, |h| h.0)
MapOr(o, default) == IF IsSome(o) THEN Unwrap(o) ELSE default

\* rate_headers with the remaining count read from the ceiling header.
rate_headersCopyPaste(resp) ==
  [rate_limit |-> MapOr(Get(resp, XRateLimitLimit), -1),
   rate_limit_remaining |-> MapOr(Get(resp, XRateLimitLimit), -1),
   rate_limit_reset |-> MapOr(Get(resp, XRateLimitReset), -1),
   response |-> "unit"]

\* rate_headers(resp): the rate-limit snapshot of a header collection.
rate_headers(resp) ==
  [rate_limit |-> MapOr(Get(resp, XRateLimitLimit), -1),
   rate_limit_remaining |-> MapOr(Get(resp, XRateLimitRemaining), -1),
   rate_limit_reset |-> MapOr(Get(resp, XRateLimitReset), -1),
   response |-> "unit"]

\* The header collections the transport delivers in the request specification.
NoHeaders == [n \in {} |-> <<>>]
HeaderPool ==
  { NoHeaders,
    [n \in {XRateLimitLimit, XRateLimitRemaining, XRateLimitReset} |->
        IF n = XRateLimitLimit THEN <<"1", "5">>
        ELSE IF n = XRateLimitRemaining THEN <<"3">>
        ELSE <<"1", "0", "0">>],
    [n \in {XRateLimitLimit, XRateLimitReset} |->
        IF n = XRateLimitLimit THEN <<"1", "5">> ELSE <<"a", "b", "c">>],
    [n \in {XRateLimitReset} |-> <<"2", "0", "0">>] }

StatusOk == 200
Statuses == {StatusOk, 503}

(***************************************************************************)
(* Return values of poll: Poll<Item, Error> as a record [kind, val].       *)
(*   "NotReady"        Ok(Async::NotReady)                                 *)
(*   "Ready"           Ok(Async::Ready(val[1]))                            *)
(*   "TransportError"  Err(e.into()) of the connector, response or body    *)
(*   "DecodeError"     invalid UTF-8 (io::Error InvalidData) or a body the *)
(*                     decoder rejects (InvalidResponse)                   *)
(*   "RateLimit"       Err(RateLimit(val[1]))                              *)
(*   "TwitterError"    Err(TwitterError(val[1]))                           *)
(*   "BadStatus"       Err(BadStatus(val[1]))                              *)
(*   "ReuseError"      io::Error Other "response has already been          *)
(*                     processed"                                          *)
(*   "Panic"           an unwrap() of None                                 *)
(***************************************************************************)
Ret(kind, val) == [kind |-> kind, val |-> val]
NotReady == Ret("NotReady", <<>>)
Ready(v) == Ret("Ready", <<v>>)
Err(kind, v) == Ret(kind, <<v>>)
Panic == Ret("Panic", <<>>)
Unpolled == Ret("Unpolled", <<>>)

ErrorKinds ==
  {"TransportError", "DecodeError", "RateLimit", "TwitterError", "BadStatus", "ReuseError"}
\* A poll that did not report "not ready" ended the exchange.
IsTerminal(r) == r.kind \in ErrorKinds \cup {"Ready", "Panic"}

(***************************************************************************)
(* Transport events: what the connector, the in-flight response and the    *)
(* body stream answer when a poll asks them.  "Idle" marks a part the poll *)
(* does not ask.                                                           *)
(***************************************************************************)
ConnectorEvents == {"ok", "err"}
RespEvent(kind, status, headers) == [kind |-> kind, status |-> status, headers |-> headers]
RespEvents ==
  {RespEvent("NotReady", 0, NoHeaders), RespEvent("Err", 0, NoHeaders)}
    \cup {RespEvent("Ready", st, h) : st \in Statuses, h \in HeaderPool}
StreamEvent(kind, chunk) == [kind |-> kind, chunk |-> chunk]
StreamEvents ==
  {StreamEvent("NotReady", <<>>), StreamEvent("Err", <<>>), StreamEvent("End", <<>>)}
    \cup {StreamEvent("Chunk", c) : c \in Chunks}
IdleResp == RespEvent("Idle", 0, NoHeaders)
IdleStream == StreamEvent("Idle", <<>>)

\* make_raw_future(handle, request)
make_raw_future ==
  [request |-> Some("Request"),
   response |-> None,
   resp_headers |-> None,
   resp_status |-> None,
   body_stream |-> None,
   body |-> <<>>]

\* SendStep with the request borrowed instead of taken: the slot stays full.
SendStepKeepsRequest(self, ev) ==
  IF ev.connector = "err"
  THEN [done |-> TRUE, self |-> self, ret |-> Err("TransportError", "connector"), sent |-> 0]
  ELSE [done |-> FALSE, self |-> [self EXCEPT !.response = Some("FutureResponse")],
        ret |-> NotReady, sent |-> 1]

\* RawFuture::poll, lines 383-389: take the request, set up the connector
\* and hand the request to the client.  sent counts the client.request calls.
SendOut(done, self, ret, sent) == [done |-> done, self |-> self, ret |-> ret, sent |-> sent]

\* A step of RawFuture::poll: done says the poll returned in this step.
Step(done, self, ret) == [done |-> done, self |-> self, ret |-> ret]

SendStep(self, ev) ==
  IF IsSome(self.request)
  THEN IF ev.connector = "err"
       THEN SendOut(TRUE, [self EXCEPT !.request = None],
                    Err("TransportError", "connector"), 0)
       ELSE SendOut(FALSE,
                    [self EXCEPT !.request = None, !.response = Some("FutureResponse")],
                    NotReady, 1)
  ELSE SendOut(FALSE, self, NotReady, 0)

\* ResponseStep with the in-flight response borrowed instead of taken: the
\* handle stays in its slot after it delivered the response.
ResponseStepKeepsHandle(self, ev) ==
  IF IsSome(self.response)
  THEN CASE ev.resp.kind = "Err" ->
              Step(TRUE, self, Err("TransportError", "response"))
         [] ev.resp.kind = "NotReady" ->
              Step(TRUE, self, NotReady)
         [] ev.resp.kind = "Ready" ->
              Step(FALSE, [self EXCEPT !.resp_headers = Some(ev.resp.headers),
                                       !.resp_status = Some(ev.resp.status),
                                       !.body_stream = Some("Body")],
                   NotReady)
  ELSE Step(FALSE, self, NotReady)

\* RawFuture::poll, lines 391-404: poll the in-flight response.
ResponseStep(self, ev) ==
  IF IsSome(self.response)
  THEN CASE ev.resp.kind = "Err" ->
              Step(TRUE, [self EXCEPT !.response = None], Err("TransportError", "response"))
         [] ev.resp.kind = "NotReady" ->
              Step(TRUE, self, NotReady)
         [] ev.resp.kind = "Ready" ->
              Step(FALSE, [self EXCEPT !.response = None,
                                       !.resp_headers = Some(ev.resp.headers),
                                       !.resp_status = Some(ev.resp.status),
                                       !.body_stream = Some("Body")],
                   NotReady)
  ELSE Step(FALSE, self, NotReady)

\* StreamStep with a received chunk assigned to the buffer instead of appended.
StreamStepOverwrites(self, ev) ==
  IF IsSome(self.body_stream)
  THEN CASE ev.stream.kind = "Err" ->
              Step(TRUE, [self EXCEPT !.body_stream = None], Err("TransportError", "body"))
         [] ev.stream.kind = "NotReady" ->
              Step(TRUE, self, NotReady)
         [] ev.stream.kind = "Chunk" ->
              Step(TRUE, [self EXCEPT !.body = ev.stream.chunk], NotReady)
         [] ev.stream.kind = "End" ->
              Step(FALSE, [self EXCEPT !.body_stream = None], NotReady)
  ELSE Step(FALSE, self, NotReady)

\* StreamStep with a stream error taken for the end of the stream.
StreamStepErrAsEnd(self, ev) ==
  IF IsSome(self.body_stream)
  THEN CASE ev.stream.kind = "NotReady" ->
              Step(TRUE, self, NotReady)
         [] ev.stream.kind = "Chunk" ->
              Step(TRUE, [self EXCEPT !.body = self.body \o ev.stream.chunk], NotReady)
         [] ev.stream.kind \in {"End", "Err"} ->
              Step(FALSE, [self EXCEPT !.body_stream = None], NotReady)
  ELSE Step(FALSE, self, NotReady)

\* StreamStep going on to final classification after a chunk, without
\* waiting for the end of the stream.
StreamStepClassifiesAfterChunk(self, ev) ==
  IF IsSome(self.body_stream)
  THEN CASE ev.stream.kind = "Err" ->
              Step(TRUE, [self EXCEPT !.body_stream = None], Err("TransportError", "body"))
         [] ev.stream.kind = "NotReady" ->
              Step(TRUE, self, NotReady)
         [] ev.stream.kind = "Chunk" ->
              Step(FALSE, [self EXCEPT !.body = self.body \o ev.stream.chunk,
                                       !.body_stream = None], NotReady)
         [] ev.stream.kind = "End" ->
              Step(FALSE, [self EXCEPT !.body_stream = None], NotReady)
  ELSE Step(FALSE, self, NotReady)

\* StreamStep answering the end of the stream with "not ready".
StreamStepIgnoresEnd(self, ev) ==
  IF IsSome(self.body_stream)
  THEN CASE ev.stream.kind = "Err" ->
              Step(TRUE, [self EXCEPT !.body_stream = None], Err("TransportError", "body"))
         [] ev.stream.kind = "NotReady" ->
              Step(TRUE, self, NotReady)
         [] ev.stream.kind = "Chunk" ->
              Step(TRUE, [self EXCEPT !.body = self.body \o ev.stream.chunk], NotReady)
         [] ev.stream.kind = "End" ->
              Step(TRUE, self, NotReady)
  ELSE Step(FALSE, self, NotReady)

\* StreamStep with a buffer that a not-ready stream empties.
StreamStepDropsOnNotReady(self, ev) ==
  IF IsSome(self.body_stream)
  THEN CASE ev.stream.kind = "Err" ->
              Step(TRUE, [self EXCEPT !.body_stream = None], Err("TransportError", "body"))
         [] ev.stream.kind = "NotReady" ->
              Step(TRUE, [self EXCEPT !.body = <<>>], NotReady)
         [] ev.stream.kind = "Chunk" ->
              Step(TRUE, [self EXCEPT !.body = self.body \o ev.stream.chunk], NotReady)
         [] ev.stream.kind = "End" ->
              Step(FALSE, [self EXCEPT !.body_stream = None], NotReady)
  ELSE Step(FALSE, self, NotReady)

\* RawFuture::poll, lines 406-420: poll the body stream.
StreamStep(self, ev) ==
  IF IsSome(self.body_stream)
  THEN CASE ev.stream.kind = "Err" ->
              Step(TRUE, [self EXCEPT !.body_stream = None], Err("TransportError", "body"))
         [] ev.stream.kind = "NotReady" ->
              Step(TRUE, self, NotReady)
         [] ev.stream.kind = "Chunk" ->
              Step(TRUE, [self EXCEPT !.body = self.body \o ev.stream.chunk], NotReady)
         [] ev.stream.kind = "End" ->
              Step(FALSE, [self EXCEPT !.body_stream = None], NotReady)
  ELSE Step(FALSE, self, NotReady)

\* AnyCode88 looking at the first entry only.
FirstCode88(errors) == Len(errors) >= 1 /\ errors[1].code = 88

\* |e| e.code == 88 for some entry (lines 427)
AnyCode88(errors) == \E i \in 1..Len(errors) : errors[i].code = 88

\* RawFuture::poll, lines 426-439: the text parsed as TwitterErrors.
\* self.headers() unwraps resp_headers and get(..).unwrap() unwraps the typed
\* header: either panics on None.
ClassifyErrors(self, errors) ==
  IF AnyCode88(errors)
  THEN IF IsNone(self.resp_headers) THEN Panic
       ELSE IF Has(Unwrap(self.resp_headers), XRateLimitReset)
       THEN IF IsSome(Get(Unwrap(self.resp_headers), XRateLimitReset))
            THEN Err("RateLimit", Unwrap(Get(Unwrap(self.resp_headers), XRateLimitReset)))
            ELSE Panic
       ELSE Err("TwitterError", errors)
  ELSE Err("TwitterError", errors)

\* ClassifyStatus without the status test.
ClassifyStatusAlwaysOk(self, text) ==
  IF IsNone(self.resp_status) THEN Panic ELSE Ready(text)

\* RawFuture::poll, lines 441-444: the match on the status.
ClassifyStatus(self, text) ==
  IF IsNone(self.resp_status) THEN Panic
  ELSE IF Unwrap(self.resp_status) = StatusOk THEN Ready(text)
  ELSE Err("BadStatus", Unwrap(self.resp_status))

\* ClassifyBody with the UTF-8 test after the test of the status.
ClassifyBodyStatusFirst(self, bytes) ==
  IF IsSome(self.resp_status) /\ Unwrap(self.resp_status) # StatusOk
  THEN Err("BadStatus", Unwrap(self.resp_status))
  ELSE IF IsNone(FromUtf8(bytes))
  THEN Err("DecodeError", "stream did not contain valid UTF-8")
  ELSE IF IsSome(DecodeTwitterErrors(Unwrap(FromUtf8(bytes))))
       THEN ClassifyErrors(self, Unwrap(DecodeTwitterErrors(Unwrap(FromUtf8(bytes)))))
       ELSE ClassifyStatus(self, Unwrap(FromUtf8(bytes)))

\* RawFuture::poll, lines 422-446: final classification of the taken body.
ClassifyBody(self, bytes) ==
  IF IsNone(FromUtf8(bytes))
  THEN Err("DecodeError", "stream did not contain valid UTF-8")
  ELSE IF IsSome(DecodeTwitterErrors(Unwrap(FromUtf8(bytes))))
       THEN ClassifyErrors(self, Unwrap(DecodeTwitterErrors(Unwrap(FromUtf8(bytes)))))
       ELSE ClassifyStatus(self, Unwrap(FromUtf8(bytes)))

\* mem::replace(&mut self.body, Vec::new()) and the classification of it.
Classify(self) ==
  Step(TRUE, [self EXCEPT !.body = <<>>], ClassifyBody(self, self.body))

\* RawFuture::poll.  Besides the new state and the return value: whether the
\* request was handed to the client (sent), and the bytes final
\* classification ran on (classified), if it ran.
RawOut(self, ret, sent, classified) ==
  [self |-> self, ret |-> ret, sent |-> sent, classified |-> classified]

RawPoll(self, ev) ==
  LET s1 == SendStep(self, ev)
      sent == s1.sent
  IN IF s1.done THEN RawOut(s1.self, s1.ret, sent, None)
     ELSE LET s2 == ResponseStep(s1.self, ev)
          IN IF s2.done THEN RawOut(s2.self, s2.ret, sent, None)
             ELSE LET s3 == StreamStep(s2.self, ev)
                  IN IF s3.done THEN RawOut(s3.self, s3.ret, sent, None)
                     ELSE LET s4 == Classify(s3.self)
                          IN RawOut(s4.self, s4.ret, sent, Some(s3.self.body))

(***************************************************************************)
(* The decoder of make_parsed_future: make_response.                       *)
(***************************************************************************)
\* T::from_str(&full_resp) for a T with the fields code and message: Some(T)
\* when the text is one such JSON object, None (Err) otherwise.
FromStr(full_resp) ==
  IF Len(full_resp) = 1 /\ full_resp[1] \in {"E88", "E34"}
  THEN Some(ErrorEntry(full_resp[1]))
  ELSE None

\* Response::map(src, |_| out): the snapshot of src around the new payload.
ResponseMap(src, out) ==
  [rate_limit |-> src.rate_limit,
   rate_limit_remaining |-> src.rate_limit_remaining,
   rate_limit_reset |-> src.rate_limit_reset,
   response |-> out]

\* make_response reading the snapshot from an empty header collection
\* instead of the response's headers.
make_responseNoHeaders(full_resp, headers) ==
  IF IsNone(FromStr(full_resp))
  THEN Err("DecodeError", "InvalidResponse")
  ELSE Ready(ResponseMap(rate_headers(NoHeaders), Unwrap(FromStr(full_resp))))

\* make_response(full_resp, headers)
make_response(full_resp, headers) ==
  IF IsNone(FromStr(full_resp))
  THEN Err("DecodeError", "InvalidResponse")
  ELSE Ready(ResponseMap(rate_headers(headers), Unwrap(FromStr(full_resp))))

\* make_future(handle, request, make_resp)
make_future == [request |-> make_raw_future, make_resp |-> Some("make_response")]

\* TwitterFuture::poll.  Besides the new state and the return value: what the
\* raw exchange returned (rawRet), whether the request was sent, the bytes
\* classification ran on, and the text the decoder was invoked with.
TwitterOut(self, ret, raw, decoded) ==
  [self |-> self, ret |-> ret, rawRet |-> raw.ret, sent |-> raw.sent,
   classified |-> raw.classified, decoded |-> decoded]

\* DecodeStep handing the decoder the body buffer, which classification has
\* emptied, instead of the text the raw exchange returned.
DecodeStepStaleBody(self, raw) ==
  IF IsSome(self.make_resp)
  THEN [self |-> [request |-> raw.self, make_resp |-> None],
        ret |-> make_response(raw.self.body, Unwrap(raw.self.resp_headers)),
        rawRet |-> raw.ret, sent |-> raw.sent, classified |-> raw.classified,
        decoded |-> Some(raw.self.body)]
  ELSE [self |-> [request |-> raw.self, make_resp |-> None],
        ret |-> Err("ReuseError", "response has already been processed"),
        rawRet |-> raw.ret, sent |-> raw.sent, classified |-> raw.classified,
        decoded |-> None]

\* DecodeStep with the decoder borrowed instead of taken.
DecodeStepKeepsDecoder(self, raw) ==
  [self |-> [request |-> raw.self, make_resp |-> self.make_resp],
   ret |-> make_response(Unwrap(raw.ret.val), Unwrap(raw.self.resp_headers)),
   rawRet |-> raw.ret, sent |-> raw.sent, classified |-> raw.classified,
   decoded |-> Some(Unwrap(raw.ret.val))]

\* TwitterFuture::poll, lines 504-509: the raw exchange returned full_resp.
DecodeStep(self, raw) ==
  IF IsSome(self.make_resp)
  THEN IF IsNone(raw.self.resp_headers)
       THEN TwitterOut([request |-> raw.self, make_resp |-> None], Panic, raw, None)
       ELSE TwitterOut([request |-> raw.self, make_resp |-> None],
                       make_response(Unwrap(raw.ret.val), Unwrap(raw.self.resp_headers)),
                       raw, Some(Unwrap(raw.ret.val)))
  ELSE TwitterOut([request |-> raw.self, make_resp |-> None],
                  Err("ReuseError", "response has already been processed"), raw, None)

\* TwitterFuture::poll answering a transport error of the raw exchange with
\* "not ready", as a retry would.
TwitterPollRetries(self, ev) ==
  LET raw == RawPoll(self.request, ev)
  IN IF raw.ret.kind = "Ready"
     THEN DecodeStep(self, raw)
     ELSE IF raw.ret.kind = "TransportError"
     THEN TwitterOut([self EXCEPT !.request = raw.self], NotReady, raw, None)
     ELSE TwitterOut([self EXCEPT !.request = raw.self], raw.ret, raw, None)

\* TwitterFuture::poll, lines 497-510.
TwitterPoll(self, ev) ==
  LET raw == RawPoll(self.request, ev)
  IN IF raw.ret.kind = "Ready"
     THEN DecodeStep(self, raw)
     ELSE TwitterOut([self EXCEPT !.request = raw.self], raw.ret, raw, None)

(***************************************************************************)
(* The state: one TwitterFuture, the result of its latest poll, and the    *)
(* history of what its polls did.                                          *)
(***************************************************************************)
VARIABLES
  fut,          \* the TwitterFuture: [request: RawFuture, make_resp]
  ret,          \* what the latest TwitterFuture::poll returned
  rawRet,       \* what the RawFuture::poll inside it returned
  event,        \* the kinds of the transport events the latest poll consumed
  classifiedOn, \* Some(bytes) when the latest poll ran final classification
  decodedOn,    \* Some(text) when the latest poll invoked the decoder
  polled,       \* a poll has happened
  sentCount,    \* times the request was handed to the client
  decodeCount,  \* times the decoder was invoked
  terminals,    \* polls that returned a terminal outcome
  received,     \* the bytes the body stream delivered, in order
  streamEnded   \* the body stream reported its end

\* The state of the other operations of the module, each driven by a
\* specification of its own and idle in the others.
VARIABLES
  hdrs,         \* rate_headers: the header collection given (resp)
  snapshot,     \* rate_headers: Some(the Response<()> returned)
  iter,         \* from_iter: the Response<T> items given, in order
  taken,        \* from_iter: items the for loop has taken so far
  running,      \* from_iter: the running Response<Vec<T>> (resp)
  source,       \* Response::map: the source envelope (src)
  fun,          \* Response::map: the function given
  mapped,       \* Response::map: Some(the envelope returned)
  funCalls      \* Response::map: times the function was applied

\* The state of the element iterators over an envelope of a collection.
VARIABLES
  parent,       \* the Response<Vec<T>> iterated over
  mode,         \* "none", or how the live iterator was made: "iter", "iter_mut", "into_iter"
  cursor,       \* the iterator: ResponseIterRef, ResponseIterMut or ResponseIter
  yielded,      \* what the steps returned so far: [item, end], in order
  held,         \* the per-element envelopes handed out, as they are now
  lastStep,     \* what the latest next / next_back returned
  op,           \* the latest operation on the envelope or its iterator
  collected     \* Some(the envelope collect() built from the iterator)

\* Several request engines resumed in turn.
VARIABLES
  fleet,        \* the TwitterFutures, by instance
  fleetRet,     \* what the latest poll of each instance returned
  scripts,      \* what the transport has in store for each instance's request
  reactor,      \* the connections spawned on the shared Handle, oldest first
  connOf,       \* the connection each instance's FutureResponse is bound to (0: none)
  turn          \* the instance of the latest poll (0: none yet, or a delivery)

\* A transport that delivers the pieces of one response over time.
VARIABLES
  wire,         \* what the transport will deliver: [resp, stream]
  delivered,    \* [resp, stream]: the pieces that have arrived so far
  consumed,     \* stream pieces the polls have taken so far
  resumptions   \* polls so far, counted up to MaxChunks + 2

\* Two raw exchanges that receive the same response in different pieces.
VARIABLES
  twinInput,    \* what both receive: [status, headers, body]
  twins,        \* the two RawFutures
  twinRet,      \* what the latest poll of each returned
  twinGot       \* per exchange: [got: bytes received, cuts: chunk boundaries, waited]

\* A tweet search and its pages.
VARIABLES
  builder,      \* the SearchBuilder
  page,         \* Some(the SearchResult held): [statuses, params]
  sentParams,   \* Some(the parameters of the latest request)
  searchOp,     \* the latest call: "call", "older" or "newer"
  requests      \* the requests made so far: [op, statuses of the page asked, params]

requestVars == <<fut, ret, rawRet, event, classifiedOn, decodedOn, polled, sentCount,
                 decodeCount, terminals, received, streamEnded>>
headerVars == <<hdrs, snapshot>>
mergeVars == <<iter, taken, running>>
mapVars == <<source, fun, mapped, funCalls>>
iterVars == <<parent, mode, cursor, yielded, held, lastStep, op, collected>>
fleetVars == <<fleet, fleetRet, scripts, reactor, connOf, turn>>
wireVars == <<wire, delivered, consumed, resumptions>>
twinVars == <<twinInput, twins, twinRet, twinGot>>
searchVars == <<builder, page, sentParams, searchOp, requests>>

vars == <<requestVars, headerVars, mergeVars, mapVars, iterVars, fleetVars, wireVars,
         twinVars, searchVars>>

\* The three rate-limit fields of an envelope.
Snapshot(e) == <<e.rate_limit, e.rate_limit_remaining, e.rate_limit_reset>>

\* A Response value.
Response(limit, remaining, reset, payload) ==
  [rate_limit |-> limit, rate_limit_remaining |-> remaining,
   rate_limit_reset |-> reset, response |-> payload]

\* from_iter, lines 332-337: the envelope the fold starts from.
FromIterStart == Response(-1, -1, -1, <<>>)

HeadersIdle == hdrs = NoHeaders /\ snapshot = None
MergeIdle == iter = <<>> /\ taken = 0 /\ running = FromIterStart
MapIdle == source = Response(-1, -1, -1, 0) /\ fun = "id" /\ mapped = None /\ funCalls = 0
IterIdle ==
  /\ parent = Response(-1, -1, -1, <<>>) /\ mode = "none" /\ cursor = None
  /\ yielded = <<>> /\ held = <<>> /\ lastStep = None /\ op = "new" /\ collected = None
FleetIdle ==
  fleet = <<>> /\ fleetRet = <<>> /\ scripts = <<>> /\ reactor = <<>> /\ connOf = <<>> /\ turn = 0
WireIdle ==
  /\ wire = [resp |-> IdleResp, stream |-> <<>>]
  /\ delivered = [resp |-> FALSE, stream |-> 0]
  /\ consumed = 0
  /\ resumptions = 0

TwinIdle ==
  /\ twinInput = [status |-> StatusOk, headers |-> NoHeaders, body |-> <<>>]
  /\ twins = <<>> /\ twinRet = <<>> /\ twinGot = <<>>
SearchIdle ==
  /\ builder = [query |-> <<>>, lang |-> None, result_type |-> None, count |-> None,
                until |-> None, geocode |-> None]
  /\ page = None /\ sentParams = None /\ searchOp = "new" /\ requests = <<>>

\* The operations a specification does not drive stay as constructed.
OthersIdle == IterIdle /\ FleetIdle /\ WireIdle /\ TwinIdle /\ SearchIdle

EventKinds(ev) == [connector |-> ev.connector, resp |-> ev.resp.kind, stream |-> ev.stream.kind]

RequestInit ==
  /\ fut = make_future
  /\ ret = Unpolled
  /\ rawRet = Unpolled
  /\ event = [connector |-> "Idle", resp |-> "Idle", stream |-> "Idle"]
  /\ classifiedOn = None
  /\ decodedOn = None
  /\ polled = FALSE
  /\ sentCount = 0
  /\ decodeCount = 0
  /\ terminals = 0
  /\ received = <<>>
  /\ streamEnded = FALSE

Init == RequestInit /\ HeadersIdle /\ MergeIdle /\ MapIdle /\ OthersIdle

\* Which parts of the transport a poll of the raw exchange asks, given what
\* the earlier parts answered.
AsksConnector(raw) == IsSome(raw.request)
AsksResponse(raw, c) ==
  IF IsSome(raw.request) THEN c = "ok" ELSE IsSome(raw.response)
AsksStream(raw, c, r) ==
  IF AsksResponse(raw, c) THEN r.kind = "Ready"
  ELSE c # "err" /\ IsSome(raw.body_stream)

ConnectorChoices(raw) == IF AsksConnector(raw) THEN ConnectorEvents ELSE {"Idle"}
RespChoices(raw, c) == IF AsksResponse(raw, c) THEN RespEvents ELSE {IdleResp}
StreamChoices(raw, c, r) ==
  IF AsksStream(raw, c, r)
  THEN {s \in StreamEvents : Len(received) + Len(s.chunk) <= MaxBody}
  ELSE {IdleStream}

\* fut.poll() with the transport answering c, r and s.
Resume(c, r, s) ==
  LET ev == [connector |-> c, resp |-> r, stream |-> s]
      out == TwitterPoll(fut, ev)
  IN /\ fut' = out.self
     /\ ret' = out.ret
     /\ rawRet' = out.rawRet
     /\ event' = EventKinds(ev)
     /\ classifiedOn' = out.classified
     /\ decodedOn' = out.decoded
     /\ polled' = TRUE
     /\ sentCount' = sentCount + out.sent
     /\ decodeCount' = decodeCount + (IF IsSome(out.decoded) THEN 1 ELSE 0)
     /\ terminals' = terminals + (IF IsTerminal(out.ret) THEN 1 ELSE 0)
     /\ received' = received \o s.chunk
     /\ streamEnded' = (streamEnded \/ s.kind = "End")

\* One resumption of the TwitterFuture by the scheduler.
Poll ==
  /\ terminals <= MaxRepoll
  /\ \E c \in ConnectorChoices(fut.request) :
     \E r \in RespChoices(fut.request, c) :
     \E s \in StreamChoices(fut.request, c, r) :
       Resume(c, r, s)
  /\ UNCHANGED <<headerVars, mergeVars, mapVars, iterVars, fleetVars, wireVars, twinVars, searchVars>>

Next == Poll

Spec == Init /\ [][Next]_vars

(***************************************************************************)
(* Properties of the request engine.                                       *)
(***************************************************************************)
\* Terminal outcomes returned before the latest poll.
PriorTerminals == terminals - (IF IsTerminal(ret) THEN 1 ELSE 0)

IsPrefix(a, b) == Len(a) <= Len(b) /\ SubSeq(b, 1, Len(a)) = a

\* The latest poll observed the end of the body stream and classified.
AtFinalClassification == IsSome(classifiedOn) /\ event.stream = "End"

\* The reset value the captured headers carry, when the reset header is
\* present with a well-formed value.
ResetPresent == IsSome(fut.request.resp_headers)
                  /\ XRateLimitReset \in DOMAIN Unwrap(fut.request.resp_headers)
                  /\ Unwrap(fut.request.resp_headers)[XRateLimitReset]
                       \in {<<"1", "0", "0">>, <<"2", "0", "0">>}
ResetValue ==
  IF Unwrap(fut.request.resp_headers)[XRateLimitReset] = <<"1", "0", "0">> THEN 100 ELSE 200

\* The classified bytes are a structured API error payload.
ClassifiedPayload ==
  /\ IsSome(FromUtf8(Unwrap(classifiedOn)))
  /\ IsSome(DecodeTwitterErrors(Unwrap(classifiedOn)))
ClassifiedErrors == Unwrap(DecodeTwitterErrors(Unwrap(classifiedOn)))
ClassifiedHas88 == \E i \in 1..Len(ClassifiedErrors) : ClassifiedErrors[i].code = 88

\* C1 (as claimed): once a poll of the TwitterFuture has returned a terminal
\* value, every later poll returns ReuseError.
C1_ReuseErrorAfterTerminal == PriorTerminals >= 1 => ret.kind = "ReuseError"

\* C2 (as claimed): every run of final classification and every decoder
\* invocation works on the complete body, all chunks received, after the
\* stream reported its end; every non-transport outcome comes from such a run.
C2_ClassifiesCompleteBody ==
  /\ IsSome(classifiedOn) => streamEnded /\ Unwrap(classifiedOn) = received
  /\ IsSome(decodedOn) => streamEnded /\ Unwrap(decodedOn) = received
  /\ rawRet.kind \in {"Ready", "TwitterError", "RateLimit", "BadStatus", "DecodeError"}
       => IsSome(classifiedOn) /\ streamEnded /\ Unwrap(classifiedOn) = received

\* C3 (as claimed): the raw exchange reports a terminal outcome once; a poll
\* after it neither reports Success again nor classifies again.
C3_RawTerminalOnce ==
  PriorTerminals >= 1 => rawRet.kind # "Ready" /\ IsNone(classifiedOn)

\* C4: a poll that reports not ready keeps the captured status and headers
\* and only appends to the body buffer.
C4_NotReadyKeepsState ==
  [][ret'.kind = "NotReady" =>
        /\ IsPrefix(fut.request.body, fut'.request.body)
        /\ fut'.request.body = fut.request.body \o SubSeq(received', Len(received) + 1, Len(received'))
        /\ IsSome(fut.request.resp_status) =>
             fut'.request.resp_status = fut.request.resp_status
        /\ IsSome(fut.request.resp_headers) =>
             fut'.request.resp_headers = fut.request.resp_headers]_vars

\* A not-ready poll that had status, headers and body bytes to keep.
C4_Witness ==
  /\ ret.kind = "NotReady"
  /\ event.stream = "NotReady"
  /\ Len(fut.request.body) >= 2
  /\ IsSome(fut.request.resp_status)

\* C5 (as claimed): the request is handed to the transport exactly once, on
\* the first poll, and the slot is empty afterwards.
C5_SentExactlyOnce == polled => sentCount = 1 /\ IsNone(fut.request.request)

\* C5 (amended): the first poll empties the request slot and hands the
\* request to the transport exactly when the connector was set up; no later
\* poll sends, so the request is sent at most once.
C5_SentOnFirstPollOnly ==
  [][/\ IsNone(fut'.request.request)
     /\ sentCount' = (IF polled THEN sentCount
                      ELSE IF event'.connector = "ok" THEN 1 ELSE 0)
     /\ sentCount' <= 1]_vars

\* The request was sent and polls after the terminal outcome followed.
C5_Witness == sentCount = 1 /\ PriorTerminals >= 1 /\ IsNone(fut.request.request)

\* C6: the decoder is invoked at most once; once invoked it is gone.
C6_DecoderAtMostOnce ==
  /\ decodeCount <= 1
  /\ decodeCount = 1 => IsNone(fut.make_resp)

\* The decoder ran, and a later poll came back without running it.
C6_Witness == decodeCount = 1 /\ PriorTerminals >= 1 /\ IsNone(decodedOn)

\* C7: a transport failure in a poll makes that poll return TransportError
\* without final classification and without the decoder.
C7_TransportErrorShortCircuits ==
  (event.connector = "err" \/ event.resp = "Err" \/ event.stream = "Err")
    => /\ ret.kind = "TransportError"
       /\ rawRet.kind = "TransportError"
       /\ IsNone(classifiedOn)
       /\ IsNone(decodedOn)

\* The stream failed while the buffer held a complete API error payload.
C7_Witness ==
  /\ event.stream = "Err"
  /\ IsSome(DecodeTwitterErrors(fut.request.body))
  /\ ret.kind = "TransportError"

\* C8: at final classification a payload with a code 88 and a reset header
\* gives RateLimit with the header's value, whatever the status.
C8_RateLimited ==
  (AtFinalClassification /\ ClassifiedPayload /\ ClassifiedHas88 /\ ResetPresent)
    => /\ rawRet.kind = "RateLimit"
       /\ rawRet.val = <<ResetValue>>
       /\ ret.kind = "RateLimit"
       /\ ret.val = <<ResetValue>>

\* A payload whose code 88 is not the first entry, with status 200.
C8_Witness ==
  /\ AtFinalClassification
  /\ classifiedOn = Some(<<"OPEN", "E34", "E88", "CLOSE">>)
  /\ ResetPresent
  /\ fut.request.resp_status = Some(200)
  /\ rawRet.kind = "RateLimit"

\* C9 (as claimed): at final classification a payload without code 88, or
\* without a usable reset header, gives TwitterError with the payload.
C9_ApiError ==
  (AtFinalClassification /\ ClassifiedPayload /\ (~ClassifiedHas88 \/ ~ResetPresent))
    => /\ rawRet.kind = "TwitterError"
       /\ rawRet.val = <<ClassifiedErrors>>

\* C10: at final classification a valid text that is no payload gives
\* Success with all received bytes when the status is 200, else BadStatus.
C10_StatusDecides ==
  (/\ AtFinalClassification
   /\ IsSome(FromUtf8(Unwrap(classifiedOn)))
   /\ IsNone(DecodeTwitterErrors(Unwrap(classifiedOn))))
    => /\ IsSome(fut.request.resp_status)
       /\ Unwrap(fut.request.resp_status) = 200
            => rawRet.kind = "Ready" /\ rawRet.val = <<received>>
       /\ Unwrap(fut.request.resp_status) # 200
            => rawRet.kind = "BadStatus" /\ rawRet.val = fut.request.resp_status

\* A two-chunk body whose multi-byte character was split between the chunks.
C10_Witness ==
  /\ AtFinalClassification
  /\ received = <<"E34", "C3", "A9">>
  /\ rawRet.kind = "Ready"

\* Status 503 with a plain body.
C10_WitnessBadStatus ==
  /\ AtFinalClassification
  /\ received = <<"CLOSE">>
  /\ rawRet.kind = "BadStatus"

\* C11: at final classification bytes that are not valid UTF-8 give
\* DecodeError, whatever the status and the headers.
C11_InvalidUtf8 ==
  (AtFinalClassification /\ ~ValidUtf8From(Unwrap(classifiedOn), 1))
    => /\ rawRet.kind = "DecodeError"
       /\ rawRet.val = <<"stream did not contain valid UTF-8">>
       /\ ret.kind = "DecodeError"

\* An API error payload with code 88 followed by a stray continuation byte,
\* status 503 and a reset header.
C11_Witness ==
  /\ AtFinalClassification
  /\ classifiedOn = Some(<<"OPEN", "E88", "CLOSE", "A9">>)
  /\ fut.request.resp_status = Some(503)
  /\ ResetPresent
  /\ rawRet.kind = "DecodeError"

\* The value the standard decoder gives for a text and a header collection:
\* an envelope around the one decoded object, or DecodeError.
DecoderResult(text, headers) ==
  IF Len(text) = 1 /\ text[1] \in {"E88", "E34"}
  THEN Ready([rate_limit |-> rate_headers(headers).rate_limit,
              rate_limit_remaining |-> rate_headers(headers).rate_limit_remaining,
              rate_limit_reset |-> rate_headers(headers).rate_limit_reset,
              response |-> IF text[1] = "E88" THEN [code |-> 88, message |-> "x"]
                           ELSE [code |-> 34, message |-> "y"]])
  ELSE Err("DecodeError", "InvalidResponse")

\* C12: the TwitterFuture is not ready exactly when its raw exchange is not
\* ready, and then the decoder is left alone; when the raw exchange completes,
\* the same poll invokes the decoder with the final text and the captured
\* headers and returns the decoder's result.
C12_DecodeOnCompletion ==
  [][/\ (ret'.kind = "NotReady") <=> (rawRet'.kind = "NotReady")
     /\ rawRet'.kind = "NotReady" =>
          /\ IsNone(decodedOn')
          /\ decodeCount' = decodeCount
          /\ fut'.make_resp = fut.make_resp
     /\ (rawRet'.kind = "Ready" /\ terminals = 0) =>
          /\ decodedOn' = rawRet'.val
          /\ decodedOn' = Some(received')
          /\ decodeCount' = decodeCount + 1
          /\ ret'.kind = DecoderResult(received', Unwrap(fut'.request.resp_headers)).kind
          /\ ret'.val = DecoderResult(received', Unwrap(fut'.request.resp_headers)).val]_vars

\* The raw exchange completed after not-ready polls and the decoder ran.
C12_Witness ==
  /\ rawRet.kind = "Ready"
  /\ terminals = 1
  /\ decodedOn = Some(<<"E34">>)
  /\ ret.kind = "Ready"

\* C13: an error of the raw exchange is returned unchanged by the same poll
\* of the TwitterFuture, and the decoder is not invoked.
C13_ErrorForwarded ==
  [][rawRet'.kind \in ErrorKinds =>
       /\ ret'.kind = rawRet'.kind
       /\ ret'.val = rawRet'.val
       /\ IsNone(decodedOn')
       /\ decodeCount' = decodeCount
       /\ fut'.make_resp = fut.make_resp]_vars

\* A transport error reached the caller with the decoder still unused.
C13_Witness ==
  /\ rawRet.kind = "TransportError"
  /\ ret.kind = "TransportError"
  /\ terminals = 1
  /\ IsSome(fut.make_resp)

\* C14: with the standard decoder, a body that decodes gives an envelope of
\* the decoded value whose snapshot is the header extraction of the captured
\* headers; a body that does not decode gives DecodeError and no envelope.
C14_EnvelopeFromHeaders ==
  IsSome(decodedOn) =>
    IF Len(Unwrap(decodedOn)) = 1 /\ Unwrap(decodedOn)[1] \in {"E88", "E34"}
    THEN /\ ret.kind = "Ready"
         /\ Unwrap(ret.val).response.code = (IF Unwrap(decodedOn)[1] = "E88" THEN 88 ELSE 34)
         /\ Unwrap(ret.val).rate_limit
              = rate_headers(Unwrap(fut.request.resp_headers)).rate_limit
         /\ Unwrap(ret.val).rate_limit_remaining
              = rate_headers(Unwrap(fut.request.resp_headers)).rate_limit_remaining
         /\ Unwrap(ret.val).rate_limit_reset
              = rate_headers(Unwrap(fut.request.resp_headers)).rate_limit_reset
    ELSE /\ ret.kind = "DecodeError"
         /\ ret.val = <<"InvalidResponse">>

\* A decoded body under headers that carry all three rate-limit values.
C14_Witness ==
  /\ decodedOn = Some(<<"E88">>)
  /\ ret.kind = "Ready"
  /\ Unwrap(ret.val).rate_limit = 15
  /\ Unwrap(ret.val).rate_limit_remaining = 3
  /\ Unwrap(ret.val).rate_limit_reset = 100

(***************************************************************************)
(* rate_headers on its own: every header collection over the three         *)
(* rate-limit names and the raw values below.                              *)
(***************************************************************************)
HeaderNames == {XRateLimitLimit, XRateLimitRemaining, XRateLimitReset}

\* Raw header values: three integers, a negative one, one with white space
\* around it, and three malformed ones (letters, an empty value, a number
\* beyond i32).
RawValues ==
  { <<"1", "5">>, <<"3">>, <<"1", "0", "0">>, <<"-", "7">>, <<"U+2003", "5", "\t">>,
    <<"a", "b", "c">>, <<>>, <<"2", "1", "4", "7", "4", "8", "3", "6", "4", "8">> }

HeaderCollections == UNION {[D -> RawValues] : D \in SUBSET HeaderNames}

HeadersInit ==
  /\ RequestInit /\ MergeIdle /\ MapIdle /\ OthersIdle
  /\ hdrs \in HeaderCollections
  /\ snapshot = None

\* A call of rate_headers(&hdrs).
Extract ==
  /\ IsNone(snapshot)
  /\ snapshot' = Some(rate_headers(hdrs))
  /\ UNCHANGED <<hdrs, requestVars, mergeVars, mapVars, iterVars, fleetVars, wireVars, twinVars, searchVars>>

SpecHeaders == HeadersInit /\ [][Extract]_vars

\* The integer a raw value stands for, for the well-formed raw values; white
\* space around the integer is allowed.
WellFormed(raw) ==
  raw \in {<<"1", "5">>, <<"3">>, <<"1", "0", "0">>, <<"-", "7">>, <<"U+2003", "5", "\t">>}
IntegerOf(raw) ==
  CASE raw = <<"1", "5">> -> 15
    [] raw = <<"3">> -> 3
    [] raw = <<"1", "0", "0">> -> 100
    [] raw = <<"-", "7">> -> -7
    [] raw = <<"U+2003", "5", "\t">> -> 5

\* What a field of the snapshot has to be for a header name.
FieldFor(name) ==
  IF name \in DOMAIN hdrs /\ WellFormed(hdrs[name]) THEN IntegerOf(hdrs[name]) ELSE -1

\* C15: rate_headers gives, field by field, the header's integer when the
\* header is present and well-formed and -1 when it is absent or malformed.
C15_HeaderExtraction ==
  IsSome(snapshot) =>
    /\ Unwrap(snapshot).rate_limit = FieldFor(XRateLimitLimit)
    /\ Unwrap(snapshot).rate_limit_remaining = FieldFor(XRateLimitRemaining)
    /\ Unwrap(snapshot).rate_limit_reset = FieldFor(XRateLimitReset)

\* Ceiling absent, remaining malformed, reset present: one field of each kind.
C15_Witness ==
  /\ DOMAIN hdrs = {XRateLimitRemaining, XRateLimitReset}
  /\ hdrs[XRateLimitRemaining] = <<"a", "b", "c">>
  /\ hdrs[XRateLimitReset] = <<"1", "5">>
  /\ IsSome(snapshot)
  /\ Snapshot(Unwrap(snapshot)) = <<-1, -1, 15>>

(***************************************************************************)
(* FromIterator<Response<T>> for Response<Vec<T>>: from_iter, one step of  *)
(* its for loop at a time.                                                 *)
(***************************************************************************)
MaxItems == 2       \* items given to from_iter at most

\* The items given: every snapshot over these values, around two payloads.
Limits == {-1, 15}
Remainings == {-1, 1, 5}
Resets == {-1, 100, 200}
Payloads == {"a", "b"}
Items ==
  [rate_limit : Limits, rate_limit_remaining : Remainings,
   rate_limit_reset : Resets, response : Payloads]
ItemSequences == UNION {[1..n -> Items] : n \in 0..MaxItems}

\* The loop body with >= in the comparison of the reset times.
MergeItemNotStrict(r, item) ==
  IF item.rate_limit_reset >= r.rate_limit_reset
  THEN Response(item.rate_limit, item.rate_limit_remaining, item.rate_limit_reset,
                Append(r.response, item.response))
  ELSE Response(r.rate_limit, r.rate_limit_remaining, r.rate_limit_reset,
                Append(r.response, item.response))

\* The loop body with the push inside the adopting branches.
MergeItemPushIfAdopted(r, item) ==
  IF \/ item.rate_limit_reset > r.rate_limit_reset
     \/ /\ item.rate_limit_reset = r.rate_limit_reset
        /\ item.rate_limit_remaining < r.rate_limit_remaining
  THEN Response(item.rate_limit, item.rate_limit_remaining, item.rate_limit_reset,
                Append(r.response, item.response))
  ELSE r

\* The loop body with the ceiling left out of the first adopting branch.
MergeItemForgetsLimit(r, item) ==
  IF item.rate_limit_reset > r.rate_limit_reset
  THEN Response(r.rate_limit, item.rate_limit_remaining, item.rate_limit_reset,
                Append(r.response, item.response))
  ELSE IF /\ item.rate_limit_reset = r.rate_limit_reset
          /\ item.rate_limit_remaining < r.rate_limit_remaining
  THEN Response(item.rate_limit, item.rate_limit_remaining, item.rate_limit_reset,
                Append(r.response, item.response))
  ELSE Response(r.rate_limit, r.rate_limit_remaining, r.rate_limit_reset,
                Append(r.response, item.response))

\* The loop body with the tie broken towards the larger remaining count.
MergeItemTieLarger(r, item) ==
  IF item.rate_limit_reset > r.rate_limit_reset
  THEN Response(item.rate_limit, item.rate_limit_remaining, item.rate_limit_reset,
                Append(r.response, item.response))
  ELSE IF /\ item.rate_limit_reset = r.rate_limit_reset
          /\ item.rate_limit_remaining > r.rate_limit_remaining
  THEN Response(item.rate_limit, item.rate_limit_remaining, item.rate_limit_reset,
                Append(r.response, item.response))
  ELSE Response(r.rate_limit, r.rate_limit_remaining, r.rate_limit_reset,
                Append(r.response, item.response))

\* The body of the for loop adopting, on a tie of the reset times, the
\* item's remaining count without its ceiling.
MergeItemTieKeepsLimit(r, item) ==
  IF item.rate_limit_reset > r.rate_limit_reset
  THEN Response(item.rate_limit, item.rate_limit_remaining, item.rate_limit_reset,
                Append(r.response, item.response))
  ELSE IF /\ item.rate_limit_reset = r.rate_limit_reset
          /\ item.rate_limit_remaining < r.rate_limit_remaining
  THEN Response(r.rate_limit, item.rate_limit_remaining, item.rate_limit_reset,
                Append(r.response, item.response))
  ELSE Response(r.rate_limit, r.rate_limit_remaining, r.rate_limit_reset,
                Append(r.response, item.response))

\* from_iter, lines 340-351: the body of the for loop on one item.
MergeItem(r, item) ==
  IF item.rate_limit_reset > r.rate_limit_reset
  THEN Response(item.rate_limit, item.rate_limit_remaining, item.rate_limit_reset,
                Append(r.response, item.response))
  ELSE IF /\ item.rate_limit_reset = r.rate_limit_reset
          /\ item.rate_limit_remaining < r.rate_limit_remaining
  THEN Response(item.rate_limit, item.rate_limit_remaining, item.rate_limit_reset,
                Append(r.response, item.response))
  ELSE Response(r.rate_limit, r.rate_limit_remaining, r.rate_limit_reset,
                Append(r.response, item.response))

MergeInit ==
  /\ RequestInit /\ HeadersIdle /\ MapIdle /\ OthersIdle
  /\ iter \in ItemSequences
  /\ taken = 0
  /\ running = FromIterStart

\* One turn of the for loop: the next item is taken and merged.
MergeStep ==
  /\ taken < Len(iter)
  /\ taken' = taken + 1
  /\ running' = MergeItem(running, iter[taken + 1])
  /\ UNCHANGED <<iter, requestVars, headerVars, mapVars, iterVars, fleetVars, wireVars, twinVars, searchVars>>

SpecMerge == MergeInit /\ [][MergeStep]_vars

\* The loop is over: running is what from_iter returns.
MergeDone == taken = Len(iter)

\* C16: the snapshot is a left fold from (-1,-1,-1): an item's snapshot
\* replaces the running one exactly when its reset is strictly greater, or
\* equal with a strictly smaller remaining; empty input gives (-1,-1,-1) and
\* an empty collection.
C16_FoldRule ==
  /\ [](taken = 0 => Snapshot(running) = <<-1, -1, -1>> /\ running.response = <<>>)
  /\ [][taken' = taken + 1 =>
          IF \/ iter[taken'].rate_limit_reset > running.rate_limit_reset
             \/ /\ iter[taken'].rate_limit_reset = running.rate_limit_reset
                /\ iter[taken'].rate_limit_remaining < running.rate_limit_remaining
          THEN Snapshot(running') = Snapshot(iter[taken'])
          ELSE Snapshot(running') = Snapshot(running)]_vars

\* Two items with the same reset, the second with the same remaining: kept.
C16_Witness ==
  /\ MergeDone
  /\ Len(iter) = 2
  /\ iter[1].rate_limit_reset = 100 /\ iter[2].rate_limit_reset = 100
  /\ iter[1].rate_limit_remaining = 5 /\ iter[2].rate_limit_remaining = 5
  /\ iter[1].rate_limit = 15 /\ iter[2].rate_limit = -1
  /\ Snapshot(running) = <<15, 5, 100>>

\* C17: the collection is the items' payloads, all of them, in input order,
\* whether or not an item's snapshot was adopted.
C17_PayloadsInOrder ==
  /\ Len(running.response) = taken
  /\ \A i \in 1..taken : running.response[i] = iter[i].response

\* The second item's snapshot was not adopted; its payload is there.
C17_Witness ==
  /\ MergeDone
  /\ Len(iter) = 2
  /\ iter[1].rate_limit_reset = 200 /\ iter[2].rate_limit_reset = 100
  /\ iter[1].response = "b" /\ iter[2].response = "a"
  /\ running.response = <<"b", "a">>

\* C18 (as claimed): a single item gives a one-element collection and a
\* snapshot identical to the item's.
C18_SingleIdentical ==
  (MergeDone /\ Len(iter) = 1)
    => /\ running.response = <<iter[1].response>>
       /\ Snapshot(running) = Snapshot(iter[1])

\* C18 (amended): a single item gives a one-element collection; the snapshot
\* is the item's when its reset is greater than -1, and stays (-1,-1,-1)
\* when its reset is -1 and its remaining is not below -1.
C18_SingleAdopted ==
  (MergeDone /\ Len(iter) = 1)
    => /\ running.response = <<iter[1].response>>
       /\ iter[1].rate_limit_reset > -1 => Snapshot(running) = Snapshot(iter[1])
       /\ (iter[1].rate_limit_reset = -1 /\ iter[1].rate_limit_remaining >= -1)
            => Snapshot(running) = <<-1, -1, -1>>

\* A single item with a known reset came back whole.
C18_Witness ==
  /\ MergeDone
  /\ Len(iter) = 1
  /\ Snapshot(iter[1]) = <<15, 5, 100>>
  /\ Snapshot(running) = <<15, 5, 100>>

\* The largest reset of the items, and the smallest remaining among the
\* items that have it.
MaxReset == CHOOSE m \in {iter[i].rate_limit_reset : i \in 1..Len(iter)} :
              \A i \in 1..Len(iter) : iter[i].rate_limit_reset <= m
MinRemainingAtMax ==
  LET atMax == {iter[i].rate_limit_remaining :
                  i \in {j \in 1..Len(iter) : iter[j].rate_limit_reset = MaxReset}}
  IN CHOOSE m \in atMax : \A x \in atMax : m <= x

\* C19 (as claimed): for a non-empty input with fields not below -1, the
\* merged reset is the largest reset and the merged remaining the smallest
\* remaining among the items with that reset, in whatever order they come.
C19_LatestWins ==
  (MergeDone /\ Len(iter) >= 1)
    => /\ running.rate_limit_reset = MaxReset
       /\ running.rate_limit_remaining = MinRemainingAtMax

\* C19 (amended): the same, for inputs whose largest reset is greater than
\* -1; when every reset is -1 the merged snapshot stays (-1,-1,-1).
C19_LatestWinsKnownReset ==
  (MergeDone /\ Len(iter) >= 1)
    => IF MaxReset > -1
       THEN /\ running.rate_limit_reset = MaxReset
            /\ running.rate_limit_remaining = MinRemainingAtMax
       ELSE Snapshot(running) = <<-1, -1, -1>>

\* The later reset came first and the tie on it was broken by the second item.
C19_Witness ==
  /\ MergeDone
  /\ Len(iter) = 2
  /\ iter[1].rate_limit_reset = 200 /\ iter[1].rate_limit_remaining = 5
  /\ iter[2].rate_limit_reset = 200 /\ iter[2].rate_limit_remaining = 1
  /\ running.rate_limit_remaining = 1

(***************************************************************************)
(* Response::map on its own.  A function is given by its name.             *)
(***************************************************************************)
Funs == {"succ", "double", "seven"}
MapPayloads == {0, 1, 2}

\* The elements of a Vec in the opposite order.
Reverse(v) == [i \in 1..Len(v) |-> v[Len(v) + 1 - i]]

\* fun(x) for the FnOnce(T) -> U given.
Apply(f, x) ==
  CASE f = "succ" -> x + 1
    [] f = "double" -> 2 * x
    [] f = "seven" -> 7
    [] f = "id" -> x
    [] f = "reverse" -> Reverse(x)

\* Response::map giving the new envelope the unknown snapshot.
mapUnknownSnapshot(e, f) ==
  [out |-> Response(-1, -1, -1, Apply(f, e.response)), calls |-> 1]

\* Response::map with the remaining count and the reset time exchanged.
mapSwapsFields(e, f) ==
  [out |-> Response(e.rate_limit, e.rate_limit_reset, e.rate_limit_remaining,
                    Apply(f, e.response)),
   calls |-> 1]

\* Response::map(src, fun), lines 52-61: the envelope returned (out) and the
\* number of times fun is applied in building it (calls).
map(e, f) ==
  [out |-> Response(e.rate_limit, e.rate_limit_remaining, e.rate_limit_reset,
                    Apply(f, e.response)),
   calls |-> 1]

MapInit ==
  /\ RequestInit /\ HeadersIdle /\ MergeIdle /\ OthersIdle
  /\ source \in [rate_limit : Limits, rate_limit_remaining : Remainings,
                 rate_limit_reset : Resets, response : MapPayloads]
  /\ fun \in Funs
  /\ mapped = None
  /\ funCalls = 0

\* A call of Response::map(source, fun).
MapCall ==
  /\ IsNone(mapped)
  /\ mapped' = Some(map(source, fun).out)
  /\ funCalls' = funCalls + map(source, fun).calls
  /\ UNCHANGED <<source, fun, requestVars, headerVars, mergeVars, iterVars, fleetVars, wireVars, twinVars, searchVars>>

SpecMap == MapInit /\ [][MapCall]_vars

\* What the function named gives on the source's payload.
Image ==
  IF fun = "succ" THEN source.response + 1
  ELSE IF fun = "double" THEN source.response + source.response
  ELSE 7

\* C20: Response::map returns the source's three snapshot fields around
\* fun(source payload), fun applied once.
C20_MapKeepsSnapshot ==
  IsSome(mapped) =>
    /\ Unwrap(mapped).rate_limit = source.rate_limit
    /\ Unwrap(mapped).rate_limit_remaining = source.rate_limit_remaining
    /\ Unwrap(mapped).rate_limit_reset = source.rate_limit_reset
    /\ Unwrap(mapped).response = Image
    /\ funCalls = 1

\* A function that a second application would show, on a full snapshot.
C20_Witness ==
  /\ IsSome(mapped)
  /\ Snapshot(source) = <<15, 5, 100>>
  /\ fun = "double" /\ source.response = 1
  /\ Unwrap(mapped).response = 2
  /\ Snapshot(Unwrap(mapped)) = <<15, 5, 100>>

(***************************************************************************)
(* Element iteration over a Response<Vec<T>>: iter, iter_mut, into_iter    *)
(* and the three iterators they return.  The iterator of a borrowed Vec    *)
(* (slice::Iter, slice::IterMut) holds references to the elements it has   *)
(* not yielded yet; a reference to the i-th element is the index i.  The   *)
(* iterator of an owned Vec (vec::IntoIter) holds the elements themselves. *)
(***************************************************************************)
MaxElems == 3       \* elements of the collection at most

Elems == {0, 1}
Collections == UNION {[1..n -> Elems] : n \in 0..MaxElems}
IterParents ==
  [rate_limit : {15}, rate_limit_remaining : {3}, rate_limit_reset : {-1, 100},
   response : Collections]

\* self.response.iter() / iter_mut(): references to the elements, in order.
SliceIter(v) == [i \in 1..Len(v) |-> i]
\* self.response.into_iter(): the elements, in order.
VecIntoIter(v) == v

\* The iterator structs: the three snapshot fields and resp_iter.
ResponseIterOf(e, resp_iter) ==
  [rate_limit |-> e.rate_limit,
   rate_limit_remaining |-> e.rate_limit_remaining,
   rate_limit_reset |-> e.rate_limit_reset,
   resp_iter |-> resp_iter]

\* Response<Vec<T>>::iter, lines 67-74.
Response_iter(e) == ResponseIterOf(e, SliceIter(e.response))

\* Response<Vec<T>>::iter_mut, lines 78-85.
Response_iter_mut(e) == ResponseIterOf(e, SliceIter(e.response))

\* into_iter with the remaining count and the reset time exchanged.
Response_into_iterSwapsFields(e) ==
  [rate_limit |-> e.rate_limit,
   rate_limit_remaining |-> e.rate_limit_reset,
   rate_limit_reset |-> e.rate_limit_remaining,
   resp_iter |-> VecIntoIter(e.response)]

\* IntoIterator for Response<Vec<T>>::into_iter, lines 316-323.
Response_into_iter(e) == ResponseIterOf(e, VecIntoIter(e.response))

\* resp_iter.next(), resp_iter.next_back(), resp_iter.size_hint() and
\* resp_iter.len() of the standard iterators: rest is what stays in the
\* iterator, item what the call returns.
StdNext(ri) ==
  IF Len(ri) > 0 THEN [rest |-> Tail(ri), item |-> Some(Head(ri))]
  ELSE [rest |-> ri, item |-> None]
StdNextBack(ri) ==
  IF Len(ri) > 0 THEN [rest |-> SubSeq(ri, 1, Len(ri) - 1), item |-> Some(ri[Len(ri)])]
  ELSE [rest |-> ri, item |-> None]
StdSizeHint(ri) == <<Len(ri), Some(Len(ri))>>
StdLen(ri) == Len(ri)

\* What a step of an iterator gives: the iterator afterwards and the item.
Stepped(self, item) == [self |-> self, item |-> item]

\* ResponseIterRef::next, lines 137-149.
ResponseIterRef_next(self) ==
  LET n == StdNext(self.resp_iter)
  IN IF IsSome(n.item)
     THEN Stepped([self EXCEPT !.resp_iter = n.rest],
                  Some(Response(self.rate_limit, self.rate_limit_remaining,
                                self.rate_limit_reset, Unwrap(n.item))))
     ELSE Stepped([self EXCEPT !.resp_iter = n.rest], None)

\* ResponseIterRef::size_hint, lines 151-153.
ResponseIterRef_size_hint(self) == StdSizeHint(self.resp_iter)

\* next_back that reads the last element and leaves it in the iterator.
ResponseIterRef_next_backKeepsElement(self) ==
  LET n == StdNextBack(self.resp_iter)
  IN IF IsSome(n.item)
     THEN Stepped(self,
                  Some(Response(self.rate_limit, self.rate_limit_remaining,
                                self.rate_limit_reset, Unwrap(n.item))))
     ELSE Stepped(self, None)

\* ResponseIterRef::next_back, lines 157-169.
ResponseIterRef_next_back(self) ==
  LET n == StdNextBack(self.resp_iter)
  IN IF IsSome(n.item)
     THEN Stepped([self EXCEPT !.resp_iter = n.rest],
                  Some(Response(self.rate_limit, self.rate_limit_remaining,
                                self.rate_limit_reset, Unwrap(n.item))))
     ELSE Stepped([self EXCEPT !.resp_iter = n.rest], None)

\* ResponseIterRef::len, lines 173-175.
ResponseIterRef_len(self) == StdLen(self.resp_iter)

\* ResponseIterMut::next, lines 202-214.
ResponseIterMut_next(self) ==
  LET n == StdNext(self.resp_iter)
  IN IF IsSome(n.item)
     THEN Stepped([self EXCEPT !.resp_iter = n.rest],
                  Some(Response(self.rate_limit, self.rate_limit_remaining,
                                self.rate_limit_reset, Unwrap(n.item))))
     ELSE Stepped([self EXCEPT !.resp_iter = n.rest], None)

\* ResponseIterMut::size_hint, lines 216-218.
ResponseIterMut_size_hint(self) == StdSizeHint(self.resp_iter)

\* ResponseIterMut::next_back, lines 222-234.
ResponseIterMut_next_back(self) ==
  LET n == StdNextBack(self.resp_iter)
  IN IF IsSome(n.item)
     THEN Stepped([self EXCEPT !.resp_iter = n.rest],
                  Some(Response(self.rate_limit, self.rate_limit_remaining,
                                self.rate_limit_reset, Unwrap(n.item))))
     ELSE Stepped([self EXCEPT !.resp_iter = n.rest], None)

\* ResponseIterMut::len, lines 238-240.
ResponseIterMut_len(self) == StdLen(self.resp_iter)

\* ResponseIter::next taking the element from the back.
ResponseIter_nextTakesLast(self) ==
  LET n == StdNextBack(self.resp_iter)
  IN IF IsSome(n.item)
     THEN Stepped([self EXCEPT !.resp_iter = n.rest],
                  Some(Response(self.rate_limit, self.rate_limit_remaining,
                                self.rate_limit_reset, Unwrap(n.item))))
     ELSE Stepped([self EXCEPT !.resp_iter = n.rest], None)

\* ResponseIter::next, lines 269-281.
ResponseIter_next(self) ==
  LET n == StdNext(self.resp_iter)
  IN IF IsSome(n.item)
     THEN Stepped([self EXCEPT !.resp_iter = n.rest],
                  Some(Response(self.rate_limit, self.rate_limit_remaining,
                                self.rate_limit_reset, Unwrap(n.item))))
     ELSE Stepped([self EXCEPT !.resp_iter = n.rest], None)

\* ResponseIter::size_hint, lines 283-285.
ResponseIter_size_hint(self) == StdSizeHint(self.resp_iter)

\* ResponseIter::next_back, lines 289-301.
ResponseIter_next_back(self) ==
  LET n == StdNextBack(self.resp_iter)
  IN IF IsSome(n.item)
     THEN Stepped([self EXCEPT !.resp_iter = n.rest],
                  Some(Response(self.rate_limit, self.rate_limit_remaining,
                                self.rate_limit_reset, Unwrap(n.item))))
     ELSE Stepped([self EXCEPT !.resp_iter = n.rest], None)

\* ResponseIter::len, lines 305-307.
ResponseIter_len(self) == StdLen(self.resp_iter)

\* Deref::deref, lines 112-114: the payload.
deref(e) == e.response

\* DerefMut::deref_mut, lines 118-120: the place of the payload, for writing.
deref_mut(e) == "response"

\* A write of v through a reference to a place of e.
Store(e, place, v) == [e EXCEPT ![place] = v]

\* The for loop of from_iter over the items an iterator yields.
RECURSIVE FromIterFold(_, _, _)
FromIterFold(r, items, k) ==
  IF k > Len(items) THEN r ELSE FromIterFold(MergeItem(r, items[k]), items, k + 1)

\* from_iter(iter), lines 329-355.
from_iter(items) == FromIterFold(FromIterStart, items, 1)

\* The items a ResponseIter yields until it returns None.
RECURSIVE Drain(_)
Drain(self) ==
  LET n == ResponseIter_next(self)
  IN IF IsNone(n.item) THEN <<>> ELSE <<Unwrap(n.item)>> \o Drain(n.self)

\* The iterator made in a mode, and its steps.
MakeIterator(m, e) ==
  CASE m = "iter" -> Response_iter(e)
    [] m = "iter_mut" -> Response_iter_mut(e)
    [] m = "into_iter" -> Response_into_iter(e)
StepFront(m, self) ==
  CASE m = "iter" -> ResponseIterRef_next(self)
    [] m = "iter_mut" -> ResponseIterMut_next(self)
    [] m = "into_iter" -> ResponseIter_next(self)
StepBack(m, self) ==
  CASE m = "iter" -> ResponseIterRef_next_back(self)
    [] m = "iter_mut" -> ResponseIterMut_next_back(self)
    [] m = "into_iter" -> ResponseIter_next_back(self)
LenOf(m, self) ==
  CASE m = "iter" -> ResponseIterRef_len(self)
    [] m = "iter_mut" -> ResponseIterMut_len(self)
    [] m = "into_iter" -> ResponseIter_len(self)
SizeHintOf(m, self) ==
  CASE m = "iter" -> ResponseIterRef_size_hint(self)
    [] m = "iter_mut" -> ResponseIterMut_size_hint(self)
    [] m = "into_iter" -> ResponseIter_size_hint(self)

IterModes == {"iter", "iter_mut", "into_iter"}
Borrowing == {"iter", "iter_mut"}

IterInit ==
  /\ RequestInit /\ HeadersIdle /\ MergeIdle /\ MapIdle /\ FleetIdle /\ WireIdle /\ TwinIdle /\ SearchIdle
  /\ parent \in IterParents
  /\ mode = "none" /\ cursor = None
  /\ yielded = <<>> /\ held = <<>> /\ lastStep = None /\ op = "new" /\ collected = None

IterFrame == UNCHANGED <<requestVars, headerVars, mergeVars, mapVars, fleetVars, wireVars, twinVars, searchVars>>

\* parent.iter(), parent.iter_mut() or parent.into_iter().  into_iter moves
\* the envelope into the iterator: parent then stands for the moved value.
CallIter ==
  /\ mode = "none"
  /\ \E m \in IterModes :
       /\ mode' = m
       /\ cursor' = Some(MakeIterator(m, parent))
       /\ op' = m
  /\ yielded' = <<>> /\ held' = <<>> /\ lastStep' = None
  /\ UNCHANGED <<parent, collected>>
  /\ IterFrame

\* The borrow of a ResponseIterRef or ResponseIterMut ends.
DropIter ==
  /\ mode \in Borrowing
  /\ mode' = "none" /\ cursor' = None
  /\ yielded' = <<>> /\ held' = <<>> /\ lastStep' = None /\ op' = "drop"
  /\ UNCHANGED <<parent, collected>>
  /\ IterFrame

\* What a step leaves behind.
AfterStep(n, end, name) ==
  /\ cursor' = Some(n.self)
  /\ lastStep' = n.item
  /\ yielded' = IF IsSome(n.item)
                THEN Append(yielded, [item |-> Unwrap(n.item), end |-> end])
                ELSE yielded
  /\ held' = IF IsSome(n.item) THEN Append(held, Unwrap(n.item)) ELSE held
  /\ op' = name
  /\ UNCHANGED <<parent, mode, collected>>
  /\ IterFrame

\* cursor.next()
IterNext ==
  /\ mode \in IterModes
  /\ AfterStep(StepFront(mode, Unwrap(cursor)), "front", "next")

\* cursor.next_back()
IterNextBack ==
  /\ mode \in IterModes
  /\ AfterStep(StepBack(mode, Unwrap(cursor)), "back", "next_back")

\* A read of the payload through deref, alone or beside a ResponseIterRef.
DerefRead ==
  /\ mode \in {"none", "iter"}
  /\ op' = "deref"
  /\ UNCHANGED <<parent, mode, cursor, yielded, held, lastStep, collected>>
  /\ IterFrame

\* A write of one element through deref_mut: (*parent)[i] = v.
DerefMutWrite ==
  /\ mode = "none"
  /\ \E i \in 1..Len(parent.response) : \E v \in Elems \ {parent.response[i]} :
       parent' = Store(parent, deref_mut(parent), [deref(parent) EXCEPT ![i] = v])
  /\ op' = "deref_mut"
  /\ UNCHANGED <<mode, cursor, yielded, held, lastStep, collected>>
  /\ IterFrame

\* A write through a per-element envelope handed out: with iter_mut its
\* payload is a mutable reference into the parent's collection, with
\* into_iter it is the element itself.
ElemWrite ==
  /\ mode \in {"iter_mut", "into_iter"}
  /\ \E j \in 1..Len(held) :
       IF mode = "iter_mut"
       THEN /\ \E v \in Elems \ {parent.response[deref(held[j])]} :
                 parent' = Store(parent, deref_mut(parent),
                                 [deref(parent) EXCEPT ![deref(held[j])] = v])
            /\ held' = held
       ELSE /\ \E v \in Elems \ {deref(held[j])} :
                 held' = [held EXCEPT ![j] = Store(held[j], deref_mut(held[j]), v)]
            /\ parent' = parent
  /\ op' = "elem_write"
  /\ UNCHANGED <<mode, cursor, yielded, lastStep, collected>>
  /\ IterFrame

\* parent = Response::map(parent, fun)
MapParent ==
  /\ mode = "none"
  /\ parent' = map(parent, "reverse").out
  /\ op' = "map"
  /\ UNCHANGED <<mode, cursor, yielded, held, lastStep, collected>>
  /\ IterFrame

\* cursor.collect::<Response<Vec<T>>>(): from_iter over what the
\* ResponseIter still yields; the iterator is moved into the call.
Collect ==
  /\ mode = "into_iter"
  /\ collected' = Some(from_iter(Drain(Unwrap(cursor))))
  /\ mode' = "moved" /\ cursor' = None
  /\ op' = "collect"
  /\ UNCHANGED <<parent, yielded, held, lastStep>>
  /\ IterFrame

IterStep ==
  \/ CallIter \/ DropIter \/ IterNext \/ IterNextBack
  \/ DerefRead \/ DerefMutWrite \/ ElemWrite \/ MapParent \/ Collect

SpecIter == IterInit /\ [][IterStep]_vars

\* The position in the collection of the element the k-th step yielded:
\* counted from the front by the front steps before it, from the back by the
\* back steps before it.
EndsBefore(k, end) == Cardinality({j \in 1..(k - 1) : yielded[j].end = end})
Position(k) ==
  IF yielded[k].end = "front" THEN EndsBefore(k, "front") + 1
  ELSE Len(parent.response) - EndsBefore(k, "back")

\* The envelope wraps the element at position i of the parent's collection:
\* a reference to it (borrowed modes) or the element (owned mode).
Wraps(e, i) ==
  IF mode \in Borrowing THEN e.response = i ELSE e.response = parent.response[i]

FrontOnly == \A k \in 1..Len(yielded) : yielded[k].end = "front"
BackOnly == \A k \in 1..Len(yielded) : yielded[k].end = "back"

\* C21: in each of the three modes, traversal from the front yields one
\* envelope per element of the collection, the i-th wrapping the i-th
\* element, each with the parent's snapshot in all three fields; the
\* traversal ends (None) after exactly n envelopes.
C21_ElementIteration ==
  /\ \A k \in 1..Len(yielded) : Snapshot(yielded[k].item) = Snapshot(parent)
  /\ Len(yielded) <= Len(parent.response)
  /\ FrontOnly =>
       /\ \A k \in 1..Len(yielded) : Wraps(yielded[k].item, k)
       /\ (op = "next" /\ IsNone(lastStep)) => Len(yielded) = Len(parent.response)
       /\ (op = "next" /\ IsSome(lastStep)) =>
            Unwrap(lastStep) = yielded[Len(yielded)].item

\* A mutable traversal of three elements from the front, run to its end.
C21_Witness ==
  /\ mode = "iter_mut"
  /\ FrontOnly
  /\ Len(yielded) = 3
  /\ parent.response = <<0, 1, 1>>
  /\ Snapshot(parent) = <<15, 3, 100>>
  /\ op = "next" /\ IsNone(lastStep)

\* The elements the live iterator has not yielded yet.
NotYetYielded == Len(parent.response) - Len(yielded)

\* C22: for each of the three iterators, after any interleaving of next and
\* next_back, len() and size_hint() are the exact number of elements not yet
\* yielded; every step yields the element at the next position from its
\* end, so each element is yielded once and a traversal from the back alone
\* is the reverse order; an exhausted iterator returns None and stays at
\* len() = 0.
C22_ExactRemaining ==
  /\ [](IsSome(cursor) =>
          /\ LenOf(mode, Unwrap(cursor)) = NotYetYielded
          /\ SizeHintOf(mode, Unwrap(cursor)) = <<NotYetYielded, Some(NotYetYielded)>>
          /\ \A k \in 1..Len(yielded) : Wraps(yielded[k].item, Position(k))
          /\ \A j, k \in 1..Len(yielded) : j # k => Position(j) # Position(k)
          /\ BackOnly =>
               \A k \in 1..Len(yielded) :
                 Wraps(yielded[k].item, Len(parent.response) + 1 - k)
          /\ (op \in {"next", "next_back"} /\ IsNone(lastStep)) => NotYetYielded = 0)
  /\ [][(IsSome(cursor) /\ LenOf(mode, Unwrap(cursor)) = 0
           /\ op' \in {"next", "next_back"})
          => /\ IsNone(lastStep')
             /\ IsSome(cursor') /\ LenOf(mode', Unwrap(cursor')) = 0
             /\ yielded' = yielded]_vars

\* A borrowed traversal of three elements that took from both ends, was
\* exhausted and was stepped once more.
C22_Witness ==
  /\ mode = "iter"
  /\ Len(yielded) = 3
  /\ yielded[1].end = "back" /\ yielded[2].end = "front" /\ yielded[3].end = "back"
  /\ parent.response = <<0, 1, 1>>
  /\ op = "next_back" /\ IsNone(lastStep)
  /\ LenOf(mode, Unwrap(cursor)) = 0

\* The per-element envelopes present before and after a step.
StillHeld == 1..(IF Len(held') < Len(held) THEN Len(held') ELSE Len(held))

\* No snapshot of an existing envelope changes in a step.
SnapshotsKept ==
  /\ Snapshot(parent') = Snapshot(parent)
  /\ \A j \in StillHeld : Snapshot(held'[j]) = Snapshot(held[j])

\* The payload of an existing envelope changes in a step.
PayloadReplaced ==
  \/ parent'.response # parent.response
  \/ \E j \in StillHeld : held'[j].response # held[j].response

\* C23 (as claimed): no operation on an envelope or its iterators changes
\* the snapshot of an existing envelope, and only map replaces a payload.
C23_OnlyMapReplacesPayload ==
  [][SnapshotsKept /\ (PayloadReplaced => op' = "map")]_vars

\* C23 (amended): no operation changes the snapshot of an existing
\* envelope; a payload changes only by map, by a write through deref_mut,
\* or by a write through a per-element envelope handed out by iter_mut or
\* into_iter.
C23_SnapshotImmutable ==
  [][/\ SnapshotsKept
     /\ PayloadReplaced => op' \in {"map", "deref_mut", "elem_write"}
     /\ op' \in {"map", "deref_mut"} => held' = held
     /\ op' \in {"iter", "iter_mut", "into_iter", "next", "next_back", "deref", "drop", "collect"}
          => parent' = parent]_vars

\* A write through a mutably borrowed per-element envelope has changed an
\* element of the parent, whose snapshot the element envelopes still carry.
C23_Witness ==
  /\ mode = "iter_mut" /\ op = "elem_write"
  /\ Len(held) = 2
  /\ Snapshot(parent) = <<15, 3, 100>>
  /\ Snapshot(held[1]) = <<15, 3, 100>> /\ Snapshot(held[2]) = <<15, 3, 100>>
  /\ parent.response = <<1, 1>>

\* C30: into_iter followed by collect gives back the envelope, for a
\* non-empty collection and a reset greater than -1.
C30_IntoIterCollectRoundTrip ==
  (/\ IsSome(collected)
   /\ Len(yielded) = 0
   /\ Len(parent.response) > 0
   /\ parent.rate_limit_reset > -1)
    => /\ Snapshot(Unwrap(collected)) = Snapshot(parent)
       /\ Unwrap(collected).response = parent.response

\* Three elements collected back under a known reset time.
C30_Witness ==
  /\ IsSome(collected)
  /\ Len(yielded) = 0
  /\ parent = Response(15, 3, 100, <<0, 1, 1>>)
  /\ Unwrap(collected) = Response(15, 3, 100, <<0, 1, 1>>)

(***************************************************************************)
(* The running snapshot of from_iter, step by step.                        *)
(***************************************************************************)
\* C29: after every step of from_iter the running snapshot is the unknown
\* snapshot (-1,-1,-1) or, in all three fields, the snapshot of one of the
\* items taken so far.
C29_SnapshotFromOneItem ==
  \/ Snapshot(running) = <<-1, -1, -1>>
  \/ \E j \in 1..taken : Snapshot(running) = Snapshot(iter[j])

\* Two items with the same reset: the second was adopted whole although the
\* first offered another ceiling.
C29_Witness ==
  /\ taken = 2
  /\ Snapshot(iter[1]) = <<15, 5, 100>>
  /\ Snapshot(iter[2]) = <<-1, 1, 100>>
  /\ Snapshot(running) = <<-1, 1, 100>>

(***************************************************************************)
(* The states of the raw exchange.  Between two polls the exchange is      *)
(* Unsent (the request slot is full), Sending (the in-flight response is   *)
(* held), StreamingBody (the body stream is held) or terminal (the three   *)
(* slots are empty); HeadersReceived is passed inside the poll that        *)
(* receives the response.                                                  *)
(***************************************************************************)
Unsent == 0
Sending == 1
StreamingBody == 3
Terminal == 4

Phase(raw) ==
  IF IsSome(raw.request) THEN Unsent
  ELSE IF IsSome(raw.response) THEN Sending
  ELSE IF IsSome(raw.body_stream) THEN StreamingBody
  ELSE Terminal

\* C26: over every poll the raw exchange never moves to an earlier state;
\* status and headers are captured together, once, by the poll that receives
\* the response and before any body byte is buffered, and are kept as
\* captured afterwards; once they are captured the in-flight response is
\* not polled again.
C26_ForwardOnly ==
  [][/\ Phase(fut'.request) >= Phase(fut.request)
     /\ Phase(fut'.request) # Unsent
     /\ IsSome(fut'.request.resp_status) <=> IsSome(fut'.request.resp_headers)
     /\ IsSome(fut.request.resp_status) =>
          /\ fut'.request.resp_status = fut.request.resp_status
          /\ fut'.request.resp_headers = fut.request.resp_headers
          /\ event'.resp = "Idle"
     /\ (IsNone(fut.request.resp_status) /\ IsSome(fut'.request.resp_status)) =>
          /\ event'.resp = "Ready"
          /\ fut.request.body = <<>> /\ received = <<>>
          /\ Phase(fut.request) \in {Unsent, Sending}
     /\ event'.resp = "Ready" => IsNone(fut.request.resp_status)
     /\ event'.stream # "Idle" => IsSome(fut'.request.resp_status)]_vars

\* An exchange that went through every state: status 503 captured, two or
\* more body bytes streamed, stream end, terminal.
C26_Witness ==
  /\ Phase(fut.request) = Terminal
  /\ terminals = 1
  /\ rawRet.kind = "BadStatus"
  /\ fut.request.resp_status = Some(503)
  /\ streamEnded /\ Len(received) >= 2

\* C28 (as claimed): whenever a poll runs final classification or the
\* decoder, status and headers have been captured, so that the unwraps of
\* resp_status and resp_headers do not fail, in every reachable state.
C28_UnwrapsNeverFail ==
  /\ IsSome(classifiedOn) =>
       /\ IsSome(fut.request.resp_status)
       /\ IsSome(fut.request.resp_headers)
  /\ IsSome(decodedOn) => IsSome(fut.request.resp_headers)
  /\ ret.kind # "Panic" \/ IsSome(fut.request.resp_status)

(***************************************************************************)
(* One request engine and a transport that delivers over time: the         *)
(* response (status and headers) or an error, then the body chunks, then   *)
(* the end of the stream or an error.  A poll finds what has arrived and   *)
(* has not been taken yet; the scheduler resumes the engine until it       *)
(* reports completion.                                                     *)
(***************************************************************************)
MaxChunks == 2      \* body chunks the transport delivers at most

WireChunks == {<<"E34">>, <<"C3">>}
WireResponses ==
  {RespEvent("Ready", st, NoHeaders) : st \in Statuses} \cup {RespEvent("Err", 0, NoHeaders)}
WireEnds == {StreamEvent("End", <<>>), StreamEvent("Err", <<>>)}
WireStreams ==
  UNION {{cs \o <<t>> : cs \in [1..n -> {StreamEvent("Chunk", c) : c \in WireChunks}],
                         t \in WireEnds} : n \in 0..MaxChunks}
Wires ==
  {[resp |-> r, stream |-> IF r.kind = "Ready" THEN st ELSE <<>>] :
     r \in WireResponses, st \in WireStreams}

WireInit ==
  /\ RequestInit /\ HeadersIdle /\ MergeIdle /\ MapIdle /\ IterIdle /\ FleetIdle /\ TwinIdle /\ SearchIdle
  /\ wire \in Wires
  /\ delivered = [resp |-> FALSE, stream |-> 0]
  /\ consumed = 0
  /\ resumptions = 0

WireFrame == UNCHANGED <<headerVars, mergeVars, mapVars, iterVars, fleetVars, twinVars, searchVars>>

\* The next piece arrives: the response once the request has been handed to
\* the client, then the pieces of the body stream in order.
Deliver ==
  /\ sentCount >= 1
  /\ IF ~delivered.resp
     THEN delivered' = [delivered EXCEPT !.resp = TRUE]
     ELSE /\ delivered.stream < Len(wire.stream)
          /\ delivered' = [delivered EXCEPT !.stream = @ + 1]
  /\ UNCHANGED <<requestVars, wire, consumed, resumptions>>
  /\ WireFrame

\* What the in-flight response and the body stream answer to a poll now.
RespNow == IF delivered.resp THEN wire.resp ELSE RespEvent("NotReady", 0, NoHeaders)
StreamNow ==
  IF delivered.stream > consumed THEN wire.stream[consumed + 1]
  ELSE StreamEvent("NotReady", <<>>)

\* One resumption of the TwitterFuture; none after it reported completion.
PollWire ==
  /\ ~IsTerminal(ret)
  /\ \E c \in ConnectorChoices(fut.request) :
       LET r == IF AsksResponse(fut.request, c) THEN RespNow ELSE IdleResp
           s == IF AsksStream(fut.request, c, r) THEN StreamNow ELSE IdleStream
       IN /\ Resume(c, r, s)
          /\ consumed' = consumed + (IF s.kind \in {"Chunk", "End", "Err"} THEN 1 ELSE 0)
  /\ resumptions' = IF resumptions < MaxChunks + 2 THEN resumptions + 1 ELSE resumptions
  /\ UNCHANGED <<wire, delivered>>
  /\ WireFrame

WireNext == PollWire \/ Deliver

SpecWire == WireInit /\ [][WireNext]_vars

\* The scheduler keeps resuming the engine and the transport keeps
\* delivering what it has.
SpecLive == SpecWire /\ WF_vars(PollWire) /\ WF_vars(Deliver)

\* The transport has nothing left to deliver.
AllDelivered ==
  delivered.resp /\ (wire.resp.kind = "Ready" => delivered.stream = Len(wire.stream))

\* C25: resumed again and again, with a transport that delivers the
\* response, finitely many chunks and the end of the stream (or an error),
\* the engine eventually returns a terminal outcome; it does not stay
\* not-ready once the transport has nothing left to deliver.
C25_EventuallyTerminal ==
  /\ <>IsTerminal(ret)
  /\ AllDelivered ~> IsTerminal(ret)

\* A body of two chunks taken to the end of the stream and classified.
C25_Witness ==
  /\ IsTerminal(ret)
  /\ rawRet.kind = "BadStatus"
  /\ Len(wire.stream) = 3 /\ consumed = 3
  /\ event.stream = "End"

\* The chunks of the body the transport delivers.
NumChunks == Cardinality({k \in 1..Len(wire.stream) : wire.stream[k].kind = "Chunk"})

\* C27: a poll that receives a chunk appends that one chunk to the buffer
\* and returns not ready without classifying, also when further pieces have
\* arrived already; a poll of the body stream classifies only when it
\* observes the end of the stream, having taken every chunk before, so
\* that a body of N chunks is classified after N + 1 polls at the least.
C27_OneChunkPerResumption ==
  /\ [](IsSome(classifiedOn) =>
          /\ event.stream = "End"
          /\ consumed = NumChunks + 1
          /\ resumptions >= NumChunks + 1)
  /\ [][(delivered' = delivered /\ event'.stream = "Chunk") =>
          /\ ret'.kind = "NotReady"
          /\ IsNone(classifiedOn')
          /\ consumed' = consumed + 1
          /\ fut'.request.body = fut.request.body \o wire.stream[consumed + 1].chunk]_vars

\* The poll took the first chunk and returned not ready although the second
\* chunk and the end of the stream had arrived too.
C27_Witness ==
  /\ ret.kind = "NotReady" /\ event.stream = "Chunk"
  /\ consumed = 1
  /\ delivered.stream = 3 /\ Len(wire.stream) = 3
  /\ wire.stream[3].kind = "End"
  /\ Len(fut.request.body) = 1

(***************************************************************************)
(* Several request engines, each made by make_future on the same Handle    *)
(* and each resumed by a scheduler of its own, in any interleaving.  What  *)
(* the instances share is the reactor behind the Handle: every request is  *)
(* spawned on it as a connection, the network delivers on the connections  *)
(* in any order, and a poll reads the connection its FutureResponse (and   *)
(* later its Body) is bound to.                                            *)
(***************************************************************************)
InstanceIds == {1, 2}

\* What the transport has in store for the request of an instance: whether
\* the connector can be made, what the response resolves to, and the pieces
\* of the body stream in order.
FleetScript(c, r, st) == [connector |-> c, resp |-> r, stream |-> st]
FleetScripts ==
  { FleetScript("err", IdleResp, <<>>),
    FleetScript("ok", RespEvent("Err", 0, NoHeaders), <<>>),
    FleetScript("ok", RespEvent("Ready", StatusOk, NoHeaders),
                <<StreamEvent("End", <<>>)>>),
    FleetScript("ok", RespEvent("Ready", StatusOk, NoHeaders),
                <<StreamEvent("Chunk", <<"E34">>), StreamEvent("End", <<>>)>>),
    FleetScript("ok", RespEvent("Ready", StatusOk, NoHeaders),
                <<StreamEvent("Chunk", <<"C3">>), StreamEvent("Err", <<>>)>>),
    FleetScript("ok", RespEvent("Ready", 503, NoHeaders),
                <<StreamEvent("Chunk", <<"E34">>), StreamEvent("Chunk", <<"C3">>),
                  StreamEvent("End", <<>>)>>),
    FleetScript("ok", RespEvent("Ready", StatusOk, [n \in {XRateLimitReset} |-> <<"2", "0", "0">>]),
                <<StreamEvent("Chunk", <<"OPEN", "E88">>), StreamEvent("Chunk", <<"CLOSE">>),
                  StreamEvent("End", <<>>)>>) }

\* client.request(req) with a client built on the Handle: a connection for
\* the request is spawned on the reactor, with nothing delivered yet.
Spawn(core, script) ==
  Append(core, [wire |-> script,
                delivered |-> [resp |-> FALSE, stream |-> 0],
                consumed |-> 0])

\* The FutureResponse bound to the oldest connection of the reactor.
BoundToFirst(core) == 1

\* self.response = Some(client.request(req)): the FutureResponse the
\* instance keeps is bound to the connection just spawned for its request.
BoundTo(core) == Len(core)

\* resp.poll() of the FutureResponse and of the Body bound to connection
\* conn: what has been delivered on it and not taken yet.
FleetRespNow(conn) ==
  IF conn.delivered.resp THEN conn.wire.resp ELSE RespEvent("NotReady", 0, NoHeaders)
FleetStreamNow(conn) ==
  IF conn.delivered.stream > conn.consumed THEN conn.wire.stream[conn.consumed + 1]
  ELSE StreamEvent("NotReady", <<>>)

FleetInit ==
  /\ RequestInit /\ HeadersIdle /\ MergeIdle /\ MapIdle /\ IterIdle /\ WireIdle /\ TwinIdle /\ SearchIdle
  /\ fleet = [i \in InstanceIds |-> make_future]
  /\ fleetRet = [i \in InstanceIds |-> Unpolled]
  /\ scripts \in [InstanceIds -> FleetScripts]
  /\ reactor = <<>>
  /\ connOf = [i \in InstanceIds |-> 0]
  /\ turn = 0

FleetFrame ==
  UNCHANGED <<requestVars, headerVars, mergeVars, mapVars, iterVars, wireVars, twinVars,
              searchVars>>

\* The scheduler of instance i resumes it; none after it reported
\* completion.  The first poll spawns the connection on the shared reactor,
\* every poll reads the connection the instance is bound to.
PollInstance ==
  /\ \E i \in InstanceIds :
       /\ ~IsTerminal(fleetRet[i])
       /\ LET raw == fleet[i].request
              c == IF AsksConnector(raw) THEN scripts[i].connector ELSE "Idle"
              sends == AsksConnector(raw) /\ c = "ok"
              core == IF sends THEN Spawn(reactor, scripts[i]) ELSE reactor
              k == IF sends THEN BoundTo(core) ELSE connOf[i]
              r == IF AsksResponse(raw, c) THEN FleetRespNow(core[k]) ELSE IdleResp
              s == IF AsksStream(raw, c, r) THEN FleetStreamNow(core[k]) ELSE IdleStream
              o == TwitterPoll(fleet[i], [connector |-> c, resp |-> r, stream |-> s])
          IN /\ fleet' = [fleet EXCEPT ![i] = o.self]
             /\ fleetRet' = [fleetRet EXCEPT ![i] = o.ret]
             /\ connOf' = [connOf EXCEPT ![i] = k]
             /\ reactor' = IF s.kind \in {"Chunk", "End", "Err"}
                           THEN [core EXCEPT ![k].consumed = @ + 1]
                           ELSE core
             /\ turn' = i
  /\ UNCHANGED scripts
  /\ FleetFrame

\* The network delivers the next piece on one of the connections: the
\* response first, then the pieces of its body in order.
DeliverTo ==
  /\ \E k \in 1..Len(reactor) :
       LET conn == reactor[k]
       IN IF ~conn.delivered.resp
          THEN reactor' = [reactor EXCEPT ![k].delivered.resp = TRUE]
          ELSE /\ conn.wire.resp.kind = "Ready"
               /\ conn.delivered.stream < Len(conn.wire.stream)
               /\ reactor' = [reactor EXCEPT ![k].delivered.stream = @ + 1]
  /\ turn' = 0
  /\ UNCHANGED <<fleet, fleetRet, connOf, scripts>>
  /\ FleetFrame

FleetNext == PollInstance \/ DeliverTo

SpecFleet == FleetInit /\ [][FleetNext]_vars

\* An instance driven alone: a TwitterFuture of its own polled against the
\* script with every piece at hand, one poll after the other until the
\* poll that returns the terminal outcome.
RECURSIVE AloneRun(_, _, _)
AloneRun(f, script, used) ==
  LET c == IF AsksConnector(f.request) THEN script.connector ELSE "Idle"
      r == IF AsksResponse(f.request, c) THEN script.resp ELSE IdleResp
      s == IF AsksStream(f.request, c, r) THEN script.stream[used + 1] ELSE IdleStream
      o == TwitterPoll(f, [connector |-> c, resp |-> r, stream |-> s])
  IN IF IsTerminal(o.ret) THEN o
     ELSE AloneRun(o.self, script, used + (IF s.kind = "Idle" THEN 0 ELSE 1))

\* C24: a poll of one instance leaves the request slot, the captured
\* status and headers, the body buffer and the decoder of every other
\* instance as they were, together with the connection the other instance
\* reads from, and every instance ends, in whatever interleaving with the
\* other instance and the network, with the outcome and the state it ends
\* with when driven alone against the same transport events.
C24_InstancesIndependent ==
  /\ [](\A i \in InstanceIds :
          IsTerminal(fleetRet[i]) =>
            /\ fleetRet[i] = AloneRun(make_future, scripts[i], 0).ret
            /\ fleet[i] = AloneRun(make_future, scripts[i], 0).self)
  /\ [][\A j \in InstanceIds \ {turn'} :
          /\ fleet'[j] = fleet[j] /\ fleetRet'[j] = fleetRet[j] /\ connOf'[j] = connOf[j]
          /\ (turn' # 0 /\ connOf[j] # 0) => reactor'[connOf[j]] = reactor[connOf[j]]]_vars

\* Instance 1 has just ended with the rate-limit error on the connection
\* spawned second, while instance 2, which sent first, is in the middle of
\* its body with two bytes buffered.
C24_Witness ==
  /\ turn = 1
  /\ fleetRet[1].kind = "RateLimit"
  /\ fleetRet[2].kind = "NotReady"
  /\ connOf[2] = 1 /\ connOf[1] = 2
  /\ Len(fleet[2].request.body) = 2
  /\ fleet[1].request.body = <<>>

(***************************************************************************)
(* Two raw exchanges receiving the same response.  The transport gives     *)
(* both the same status, headers and body bytes; how the body is cut into  *)
(* chunks, and how often the response or the stream is not ready, is       *)
(* chosen for each exchange on its own.                                    *)
(***************************************************************************)
MaxWaits == 2

TwinIds == {1, 2}

\* The bodies the two exchanges receive: a rate-limit document, an error
\* document without code 88, plain text, text with a two-byte character,
\* a truncated two-byte character, and nothing.
TwinBodies ==
  { <<"OPEN", "E88", "CLOSE">>,
    <<"OPEN", "E34", "E88", "CLOSE">>,
    <<"OPEN", "E34", "CLOSE">>,
    <<"E34", "E88">>,
    <<"C3", "A9", "E34">>,
    <<"E34", "C3">>,
    <<>> }

TwinInit ==
  /\ RequestInit /\ HeadersIdle /\ MergeIdle /\ MapIdle
  /\ IterIdle /\ FleetIdle /\ WireIdle /\ SearchIdle
  /\ twinInput \in [status : Statuses, headers : HeaderPool, body : TwinBodies]
  /\ twins = [i \in TwinIds |-> make_raw_future]
  /\ twinRet = [i \in TwinIds |-> Unpolled]
  /\ twinGot = [i \in TwinIds |-> [got |-> 0, cuts |-> {}, waited |-> 0]]

\* What the in-flight response of exchange i answers: not ready yet, or the
\* response both exchanges receive.
TwinResps(i) ==
  {RespEvent("Ready", twinInput.status, twinInput.headers)}
    \cup (IF twinGot[i].waited < MaxWaits THEN {RespEvent("NotReady", 0, NoHeaders)} ELSE {})

\* What the body stream of exchange i answers: not ready yet, the next k
\* bytes of the body, or the end of the stream once every byte was given.
TwinStreams(i) ==
  (IF twinGot[i].waited < MaxWaits THEN {StreamEvent("NotReady", <<>>)} ELSE {})
    \cup {StreamEvent("Chunk", SubSeq(twinInput.body, twinGot[i].got + 1, twinGot[i].got + k)) :
            k \in 1..(Len(twinInput.body) - twinGot[i].got)}
    \cup (IF twinGot[i].got = Len(twinInput.body) THEN {StreamEvent("End", <<>>)} ELSE {})

\* One resumption of exchange i; none after its first terminal outcome.
PollTwin ==
  /\ \E i \in TwinIds :
       /\ ~IsTerminal(twinRet[i])
       /\ \E r \in (IF AsksResponse(twins[i], "ok") THEN TwinResps(i) ELSE {IdleResp}) :
          \E s \in (IF AsksStream(twins[i], "ok", r) THEN TwinStreams(i) ELSE {IdleStream}) :
            LET c == IF AsksConnector(twins[i]) THEN "ok" ELSE "Idle"
                o == RawPoll(twins[i], [connector |-> c, resp |-> r, stream |-> s])
                g == twinGot[i]
            IN /\ twins' = [twins EXCEPT ![i] = o.self]
               /\ twinRet' = [twinRet EXCEPT ![i] = o.ret]
               /\ twinGot' = [twinGot EXCEPT ![i] =
                     [got |-> g.got + Len(s.chunk),
                      cuts |-> IF s.kind = "Chunk" THEN g.cuts \cup {g.got + Len(s.chunk)}
                               ELSE g.cuts,
                      waited |-> IF "NotReady" \in {r.kind, s.kind} THEN g.waited + 1
                                 ELSE g.waited]]
  /\ UNCHANGED twinInput
  /\ UNCHANGED <<requestVars, headerVars, mergeVars, mapVars, iterVars, fleetVars, wireVars,
                 searchVars>>

TwinNext == PollTwin

SpecTwin == TwinInit /\ [][TwinNext]_vars

\* C31: two raw exchanges that receive the same status, headers and body
\* bytes, cut into chunks differently and with different numbers of
\* not-ready resumptions in between, return the same first terminal
\* outcome.
C31_OutcomeIgnoresChunking ==
  (IsTerminal(twinRet[1]) /\ IsTerminal(twinRet[2])) => twinRet[1] = twinRet[2]

\* Both exchanges ended with the rate-limit error; one took the body in one
\* chunk without waiting, the other in pieces and with not-ready polls.
C31_Witness ==
  /\ IsTerminal(twinRet[1]) /\ IsTerminal(twinRet[2])
  /\ twinRet[1].kind = "RateLimit"
  /\ twinGot[1].cuts # twinGot[2].cuts
  /\ Cardinality(twinGot[2].cuts) >= 2
  /\ twinGot[1].waited = 0 /\ twinGot[2].waited = MaxWaits

(***************************************************************************)
(* Tweet search (search.rs).  Parameter values are sequences of            *)
(* characters, a ParamList is a function from its keys to their values.    *)
(* Status ids are small positive integers, far inside the range of the id  *)
(* type, so that min_id - 1 stays inside it.                               *)
(***************************************************************************)
MaxPages == 3

\* The statuses (by id, in the order received) of the pages the service
\* answers with.
StatusPages == { <<>>, <<10>>, <<12, 10>>, <<1, 12>>, <<9, 1, 10>> }

ResultTypes == {"Recent", "Popular", "Mixed"}

\* impl fmt::Display for ResultType
ResultTypeToString(t) ==
  CASE t = "Recent" -> <<"r", "e", "c", "e", "n", "t">>
    [] t = "Popular" -> <<"p", "o", "p", "u", "l", "a", "r">>
    [] t = "Mixed" -> <<"m", "i", "x", "e", "d">>

\* search(query)
search(query) ==
  [query |-> query, lang |-> None, result_type |-> None, count |-> None,
   until |-> None, geocode |-> None]

\* The builders the setters lang, result_type, count, until and geocode
\* make of search(query): each field left out or set.
Builders ==
  [query : {<<"r", "u", "s", "t">>},
   lang : {None, Some(<<"e", "n">>)},
   result_type : {None} \cup {Some(t) : t \in ResultTypes},
   count : {None, Some(100)},
   until : {None, Some(<<2016, 11, 5>>)},
   geocode : {None} \cup {Some([lat |-> 51, lon |-> -3, radius |-> [unit |-> u, r |-> 5]]) :
                            u \in {"Miles", "Kilometers"}}]

\* Integer to_string(): decimal digits, most significant first, "-" before
\* a negative number.
RECURSIVE NatDigits(_)
NatDigits(n) ==
  IF n < 10 THEN <<CHOOSE c \in Digits : DigitVal(c) = n>>
  ELSE NatDigits(n \div 10) \o <<CHOOSE c \in Digits : DigitVal(c) = n % 10>>
to_string(n) == IF n < 0 THEN <<"-">> \o NatDigits(0 - n) ELSE NatDigits(n)

\* format!("{}-{}-{}", year, month, day)
FormatUntil(date) ==
  to_string(date[1]) \o <<"-">> \o to_string(date[2]) \o <<"-">> \o to_string(date[3])

\* format!("{:.6},{:.6},{}mi", lat, lon, r) and its "km" twin, for
\* coordinates that are whole numbers.
FormatFixed6(x) == to_string(x) \o <<".", "0", "0", "0", "0", "0", "0">>
FormatGeocode(g) ==
  FormatFixed6(g.lat) \o <<",">> \o FormatFixed6(g.lon) \o <<",">> \o to_string(g.radius.r)
    \o (IF g.radius.unit = "Miles" THEN <<"m", "i">> ELSE <<"k", "m">>)

\* HashMap::new()
EmptyParams == [key \in {} |-> <<>>]

\* add_param(&mut params, key, value): the key inserted, its value replaced
\* if it was there.
add_param(params, key, value) ==
  [kk \in DOMAIN params \cup {key} |-> IF kk = key THEN value ELSE params[kk]]

\* params.remove(key)
remove(params, key) == [kk \in DOMAIN params \ {key} |-> params[kk]]

\* SearchBuilder::call, lines 137-162: the parameters of the first request.
call(b) ==
  LET p1 == add_param(EmptyParams, "q", b.query)
      p2 == IF IsSome(b.lang) THEN add_param(p1, "lang", Unwrap(b.lang)) ELSE p1
      p3 == IF IsSome(b.result_type)
            THEN add_param(p2, "result_type", ResultTypeToString(Unwrap(b.result_type)))
            ELSE p2
      p4 == IF IsSome(b.count) THEN add_param(p3, "count", to_string(Unwrap(b.count))) ELSE p3
      p5 == IF IsSome(b.until) THEN add_param(p4, "until", FormatUntil(Unwrap(b.until))) ELSE p4
  IN IF IsSome(b.geocode) THEN add_param(p5, "geocode", FormatGeocode(Unwrap(b.geocode)))
     ELSE p5

\* SearchResult::from_json: the page as decoded, without its parameters.
\* (query, max_id and since_id of search_metadata are not read by older or
\* newer and are left out.)
from_json(statuses) == [statuses |-> statuses, params |-> None]

\* self.params.as_ref().cloned().unwrap_or_default()
UnwrapOrDefault(o) == IF IsSome(o) THEN Unwrap(o) ELSE EmptyParams

\* self.statuses.iter().map(|t| t.id).min() / .max(), of a page with statuses
MinId(statuses) ==
  CHOOSE a \in {statuses[j] : j \in 1..Len(statuses)} :
    \A j \in 1..Len(statuses) : a <= statuses[j]
MaxId(statuses) ==
  CHOOSE a \in {statuses[j] : j \in 1..Len(statuses)} :
    \A j \in 1..Len(statuses) : a >= statuses[j]

\* older with the since_id of the page's own request left in.
olderKeepsSinceId(sr) ==
  LET params == UnwrapOrDefault(sr.params)
  IN IF Len(sr.statuses) > 0
     THEN add_param(params, "max_id", to_string(MinId(sr.statuses) - 1))
     ELSE remove(params, "max_id")

\* SearchResult::older, lines 206-214: the parameters of the request.
older(sr) ==
  LET params == remove(UnwrapOrDefault(sr.params), "since_id")
  IN IF Len(sr.statuses) > 0
     THEN add_param(params, "max_id", to_string(MinId(sr.statuses) - 1))
     ELSE remove(params, "max_id")

\* SearchResult::newer, lines 225-233: the parameters of the request.
newer(sr) ==
  LET params == remove(UnwrapOrDefault(sr.params), "max_id")
  IN IF Len(sr.statuses) > 0
     THEN add_param(params, "since_id", to_string(MaxId(sr.statuses)))
     ELSE remove(params, "since_id")

\* What auth::get and parse_response give: an error (None), or a page.
Answers == {None} \cup {Some(from_json(st)) : st \in StatusPages}

SearchInit ==
  /\ RequestInit /\ HeadersIdle /\ MergeIdle /\ MapIdle
  /\ IterIdle /\ FleetIdle /\ WireIdle /\ TwinIdle
  /\ builder \in Builders
  /\ page = None
  /\ sentParams = None
  /\ searchOp = "new"
  /\ requests = <<>>

\* The request with parameters params is made on the page shown by asked;
\* an error leaves the caller with the page it had, a page answered is
\* returned with the parameters of its request (ret.response.params =
\* Some(params)).
Request(opname, asked, params) ==
  /\ \E answer \in Answers :
       page' = IF IsSome(answer) THEN Some([Unwrap(answer) EXCEPT !.params = Some(params)])
               ELSE page
  /\ sentParams' = Some(params)
  /\ searchOp' = opname
  /\ requests' = Append(requests, [op |-> opname, statuses |-> asked, params |-> params])
  /\ UNCHANGED builder
  /\ UNCHANGED <<requestVars, headerVars, mergeVars, mapVars, iterVars, fleetVars, wireVars,
                 twinVars>>

\* SearchBuilder::call
Call ==
  /\ requests = <<>>
  /\ Request("call", <<>>, call(builder))

\* SearchResult::older
Older ==
  /\ IsSome(page) /\ Len(requests) < MaxPages
  /\ Request("older", Unwrap(page).statuses, older(Unwrap(page)))

\* SearchResult::newer
Newer ==
  /\ IsSome(page) /\ Len(requests) < MaxPages
  /\ Request("newer", Unwrap(page).statuses, newer(Unwrap(page)))

SearchNext == Call \/ Older \/ Newer

SpecSearch == SearchInit /\ [][SearchNext]_vars

PagingKeys == {"max_id", "since_id"}
BuilderKeys == {"lang", "result_type", "count", "until", "geocode"}

\* The parameters of a request other than the two paging ids.
QueryPart(params) == [kk \in DOMAIN params \ PagingKeys |-> params[kk]]

\* C32: over any sequence of page requests following a search, older()
\* sends max_id = (smallest status id of the current page) - 1 and no
\* since_id, newer() sends since_id = the largest status id of the current
\* page and no max_id, on a page without statuses neither is sent, no
\* request carries both, and the parameters of the original query (q, lang,
\* result_type, count, until, geocode) are carried over unchanged.
C32_PageRequests ==
  requests # <<>> =>
    LET last == requests[Len(requests)]
        sentNow == Unwrap(sentParams)
        given == DOMAIN sentNow
        first == requests[1].params
    IN /\ last.params = sentNow
       /\ (last.op = "older" /\ Len(last.statuses) > 0) =>
            /\ "max_id" \in given /\ "since_id" \notin given
            /\ I32FromStr(sentNow["max_id"]) = Some(MinId(last.statuses) - 1)
       /\ (last.op = "newer" /\ Len(last.statuses) > 0) =>
            /\ "since_id" \in given /\ "max_id" \notin given
            /\ I32FromStr(sentNow["since_id"]) = Some(MaxId(last.statuses))
       /\ Len(last.statuses) = 0 => given \cap PagingKeys = {}
       /\ ~(PagingKeys \subseteq given)
       /\ QueryPart(sentNow) = first
       /\ DOMAIN first = {"q"} \cup {kk \in BuilderKeys : IsSome(builder[kk])}
       /\ first["q"] = builder.query
       /\ IsSome(builder.count) => I32FromStr(first["count"]) = builder.count
       /\ IsSome(builder.result_type) =>
            first["result_type"] = ResultTypeToString(Unwrap(builder.result_type))

\* A search with every field set, then newer() and, on the page it
\* returned, older(): max_id is 9 under a smallest id of 10.
C32_Witness ==
  /\ Len(requests) = 3
  /\ requests[2].op = "newer" /\ "since_id" \in DOMAIN requests[2].params
  /\ requests[3].op = "older" /\ requests[3].statuses = <<12, 10>>
  /\ Unwrap(sentParams)["max_id"] = <<"9">>
  /\ \A kk \in BuilderKeys : IsSome(builder[kk])
  /\ IsSome(page) /\ Unwrap(page).params = sentParams

====
